---- MODULE Spec2Model ----
(***************************************************************************)
(* CodeGraph: the ingestion worker (services/ingestion_worker/main.py),    *)
(* its scheduler, the file watcher's debounce                              *)
(* (services/file_watcher_service/main.py), the scan orchestrator          *)
(* (services/scan_orchestrator.py) and the Python analyzer                 *)
(* (services/analyzers/python_analyzer/main.py).                           *)
(*                                                                         *)
(* The graph store is modelled by what the Cypher text of each query asks  *)
(* for: MERGE by (labels, gid), MATCH by gid / canonical_id, DETACH DELETE.*)
(* Every session.run is one auto-commit transaction, hence atomic.  A      *)
(* query may raise (store unavailable); the code's try/except decides what *)
(* happens then.                                                           *)
(***************************************************************************)
EXTENDS Integers, FiniteSets, Sequences, TLC

VARIABLES
    nodes,          \* graph: set of node records [gid, labels, canonical_id, file_path]
    edges,          \* graph: set of concrete edges [src, dst, type, stamped]
    pend,           \* graph: bag of PendingRelationship nodes, row -> how many
    singleExhausts, \* does Result.single() exhaust the result (driver) or not (test mocks)
    cpc,            \* consumer thread: position inside process_message
    msg,            \* consumer thread: the delivery being processed (kept after it ends)
    cbatch,         \* consumer thread: `batch` of its resolve_pending_relationships call
    outcome,        \* what the consumer answered for msg: "none", "ack", "nack"
    nackRequeue,    \* the requeue flag of the last basic_nack
    requeued,       \* bodies the broker holds for redelivery
    deliveries,     \* number of deliveries so far
    failedOps,      \* graph operations of the current message in which a query raised
    sdpc,           \* scheduler pool: per slot, position inside resolve_pending_relationships
    sbatch,         \* scheduler pool: per slot, `batch`
    now,            \* clock: time since start, the trigger fires at every multiple of the interval
    skipped,        \* history: a run was skipped because max_instances were running
    onceCounts,     \* history: graph counts when the same body was delivered again
    startPend,      \* history: rows pending, with their source node present, at delivery
    doomed,         \* history: nodes reachable by CONTAINS|DEFINES from the deleted gids
    dueAt,          \* history: row -> time its target node was ingested while it was pending
    file_timestamps,\* watcher: FileChangeHandler.file_timestamps, path -> ms or NoTime
    wnow,           \* watcher: time.time() in debounce units
    lastEvent,      \* history: per path, time of the last event if it was a MODIFIED
    wjobs,          \* watcher: published jobs, in order
    burst,          \* history: per path, MODIFIED jobs emitted in the current run of close events
    prevEvent,      \* history: per path, time of the last event of any type for the file
    storm,          \* history: per path, MODIFIED jobs emitted in the current save storm
    lastType,       \* history: per path, type of the last event for the file, or "NONE"
    lastDeleted,    \* history: file of the last DELETED event handled with the broker up
    squeue,         \* scan orchestrator: messages published to the analyzer queues, in order
    scans,          \* scan orchestrator: scan triggers handled so far
    sbody,          \* scan orchestrator: the trigger handled last
    scanAnswer,     \* scan orchestrator: answer to sbody: "none", "ack", "nack"
    abody,          \* python analyzer: the job handled last
    aenv,           \* python analyzer: what the handler met: file content and failing service
    aanswer,        \* python analyzer: answer to abody: "none", "ack", "nack"
    arequeue,       \* python analyzer: the requeue flag of its basic_nack
    apublished,     \* python analyzer: results published to the results queue for abody
    ppc,            \* watcher's publisher: position of the observer thread in publish_with_retry
    pmessage,       \* watcher's publisher: the message being published
    attempt,        \* watcher's publisher: `attempt` of publish_with_retry
    cattempt,       \* watcher's publisher: `attempt` of _connect
    psleeps,        \* history: the time.sleep durations of publish_with_retry for pmessage
    pqueue,         \* watcher's publisher: messages the broker accepted, with their routing key
    pdropped,       \* history: messages given up with the critical log entry
    rin,            \* resolver: the analysis_results orchestrate_results was called with
    rfirst,         \* resolver: the kind of label a set of labels yields first in this run
    rnodes,         \* resolver: the GraphNode list returned
    rrels,          \* resolver: the GraphRelationship list returned
    rregistry,      \* history: definition_registry at the end of orchestrate_results
    rdone,          \* resolver: orchestrate_results has returned
    wmain,          \* main of the watcher: position, _connect attempt, exit code and its cause
    amain,          \* main of the Python analyzer: position, exit code and its cause
    imain           \* main of the ingestion worker: position, exit code and its cause

vars == << nodes, edges, pend, singleExhausts, cpc, msg, cbatch, outcome, nackRequeue,
           requeued, deliveries, failedOps, sdpc, sbatch, now, skipped,
           onceCounts, startPend, doomed, dueAt,
           file_timestamps, wnow, lastEvent, wjobs, burst, prevEvent, storm, lastType, lastDeleted,
           squeue, scans, sbody, scanAnswer, abody, aenv, aanswer, arequeue, apublished,
           ppc, pmessage, attempt, cattempt, psleeps, pqueue, pdropped,
           rin, rfirst, rnodes, rrels, rregistry, rdone, wmain, amain, imain >>

ingestVars == << nodes, edges, pend, singleExhausts, cpc, msg, cbatch, outcome, nackRequeue,
                 requeued, deliveries, failedOps, sdpc, sbatch, now, skipped,
                 onceCounts, startPend, doomed, dueAt >>

watcherVars == << file_timestamps, wnow, lastEvent, wjobs, burst, prevEvent, storm, lastType, lastDeleted >>

publisherVars == << ppc, pmessage, attempt, cattempt, psleeps, pqueue, pdropped >>

resolverVars == << rin, rfirst, rnodes, rrels, rregistry, rdone >>

startupVars == << wmain, amain, imain >>

analysisVars == << squeue, scans, sbody, scanAnswer, abody, aenv, aanswer, arequeue, apublished,
                   publisherVars, resolverVars, startupVars >>

-----------------------------------------------------------------------------
(* Bounds of the model *)

MaxDeliveries == 2      \* deliveries of the results queue that are explored
MaxTime == 2            \* time that is explored
MaxSlots == 2           \* threads of the scheduler's pool

(* Program constants, scaled *)

RELATIONSHIP_BATCH_SIZE == 2
RELATIONSHIP_RESOLUTION_INTERVAL == 1
max_instances == 1

-----------------------------------------------------------------------------
(* The inputs: node stubs and relationship rows of AnalyzerResult messages *)

NodeStubs ==
    { [gid |-> "g1", canonical_id |-> "x1", labels |-> <<"File">>,     file_path |-> "a.py"],
      [gid |-> "g2", canonical_id |-> "x2", labels |-> <<"Class">>,    file_path |-> "a.py"],
      [gid |-> "g3", canonical_id |-> "x3", labels |-> <<"Function">>, file_path |-> "a.py"] }

RelRows ==
    { [source_gid |-> "g1", target_canonical_id |-> "x2", type |-> "CONTAINS"],
      [source_gid |-> "g2", target_canonical_id |-> "x3", type |-> "CONTAINS"],
      [source_gid |-> "g3", target_canonical_id |-> "x1", type |-> "CALLS"] }

Gids == { s.gid : s \in NodeStubs }
RelTypes == { r.type : r \in RelRows }

StubOf(canonical_id) == CHOOSE s \in NodeStubs : s.canonical_id = canonical_id

\* relationships_deleted entries: {source_gid, target_canonical_id, type?}
NoType == "none"
RelSpec(r, t) ==
    [source_gid |-> r.source_gid, target_canonical_id |-> r.target_canonical_id, type |-> t]
RelSpecs ==
    { RelSpec(r, t) : r \in { x \in RelRows : x.type = "CALLS" }, t \in RelTypes }
    \cup { RelSpec(r, NoType) : r \in { x \in RelRows : x.source_gid = "g1" } }

\* a body json.loads rejects, or one that is not a JSON object
Malformed == [malformed |-> TRUE]

Payload(N, R, D, S) ==
    [nodes_upserted |-> N, relationships_upserted |-> R,
     nodes_deleted |-> D, relationships_deleted |-> S]

AtMostOne(U) == {{}} \cup { {u} : u \in U }

\* the analyzer sends one entity or the whole file; none, one or all CONTAINS rows
NodeBatches == AtMostOne(NodeStubs) \cup {NodeStubs}
RelBatches == AtMostOne(RelRows) \cup {{ r \in RelRows : r.type = "CONTAINS" }}

\* nodes alone, rows alone, an entity with the row it is the source of, the File
\* node with the CONTAINS rows of the file, the whole file
Upserts ==
    { Payload(N, {}, {}, {}) : N \in NodeBatches }
    \cup { Payload({}, R, {}, {}) : R \in RelBatches }
    \cup { Payload({ n \in NodeStubs : n.gid = r.source_gid }, {r}, {}, {}) : r \in RelRows }
    \cup { Payload(N, { r \in RelRows : r.type = "CONTAINS" }, {}, {}) :
             N \in { { n \in NodeStubs : n.labels = <<"File">> }, NodeStubs } }

\* upserts of a file, deletions, and bodies that upsert the target of a row and
\* delete its source
Payloads ==
    Upserts
    \cup { Payload({}, {}, {g}, {}) : g \in Gids }
    \cup { Payload({}, {}, {}, {s}) : s \in RelSpecs }
    \cup { Payload({StubOf(r.target_canonical_id)}, {}, {r.source_gid}, {}) : r \in RelRows }

Bodies == Payloads \cup {Malformed}

-----------------------------------------------------------------------------
(* The graph store *)

Range(s) == { s[i] : i \in DOMAIN s }

Key(n) == << n.gid, n.labels >>

EmptyBag == [ r \in RelRows |-> 0 ]

BagSize(b) == LET RECURSIVE Sum(_)
                  Sum(S) == IF S = {} THEN 0
                            ELSE LET r == CHOOSE x \in S : TRUE IN b[r] + Sum(S \ {r})
              IN Sum(RelRows)

Graph(N, E, P) == [nodes |-> N, edges |-> E, pend |-> P]

Sources(G, row) == { n \in G.nodes : n.gid = row.source_gid }
Targets(G, row) == { n \in G.nodes : n.canonical_id = row.target_canonical_id }

NodeAt(G, k) == CHOOSE n \in G.nodes : Key(n) = k

\* MERGE (source)-[r:`type`]->(target): one edge per (source, target, type).
\* stamp: SET r += row wrote source_gid and target_canonical_id on the edge.
MergeEdge(E, s, t, type, stamp) ==
    LET old == { e \in E : e.src = Key(s) /\ e.dst = Key(t) /\ e.type = type }
    IN  IF old = {}
        THEN E \cup { [src |-> Key(s), dst |-> Key(t), type |-> type, stamped |-> stamp] }
        ELSE IF stamp
             THEN (E \ old) \cup { [src |-> Key(s), dst |-> Key(t), type |-> type, stamped |-> TRUE] }
             ELSE E

MergeEdgesOfRow(G, E, row, stamp) ==
    LET pairs == Sources(G, row) \X Targets(G, row)
        RECURSIVE Go(_, _)
        Go(F, S) == IF S = {} THEN F
                    ELSE LET p == CHOOSE x \in S : TRUE
                         IN Go(MergeEdge(F, p[1], p[2], row.type, stamp), S \ {p})
    IN  Go(E, pairs)

\* MERGE (n:<labels> {gid: row.gid}) ON CREATE SET n += row ON MATCH SET n += row
MergeNode(N, s) ==
    LET matched == { n \in N : n.gid = s.gid /\ Range(s.labels) \subseteq Range(n.labels) }
    IN  IF matched = {}
        THEN N \cup { [gid |-> s.gid, labels |-> s.labels,
                       canonical_id |-> s.canonical_id, file_path |-> s.file_path] }
        ELSE (N \ matched) \cup
             { [n EXCEPT !.canonical_id = s.canonical_id, !.file_path = s.file_path] : n \in matched }

MergeNodes(G, batch) ==
    LET RECURSIVE Go(_, _)
        Go(N, S) == IF S = {} THEN N
                    ELSE LET s == CHOOSE x \in S : TRUE IN Go(MergeNode(N, s), S \ {s})
    IN  [G EXCEPT !.nodes = Go(G.nodes, batch)]

\* a variant in which the resolving query matches nothing
Resolvable_never(G, row) == FALSE

\* UNWIND $batch AS row MATCH source, target, pr  MERGE (source)-[r]->(target)
\* SET r += row.properties  DELETE pr              (main.py 243-252, 283-292, 346-355)
\* pr.properties is never written (main.py 201-205), so nothing is set on r.
Resolvable(G, row) == Sources(G, row) # {} /\ Targets(G, row) # {} /\ G.pend[row] > 0

\* a variant of the resolving query that deletes pr without MERGE
ResolveRows_drop(G, rows) ==
    [G EXCEPT !.pend = [ r \in RelRows |-> IF r \in rows THEN 0 ELSE G.pend[r] ]]

ResolveRows(G, rows) ==
    LET RECURSIVE Go(_, _)
        Go(H, S) ==
            IF S = {} THEN H
            ELSE LET row == CHOOSE x \in S : TRUE
                 IN  IF Resolvable(H, row)
                     THEN Go([H EXCEPT !.edges = MergeEdgesOfRow(H, H.edges, row, FALSE),
                                       !.pend = [H.pend EXCEPT ![row] = 0]], S \ {row})
                     ELSE Go(H, S \ {row})
    IN  Go(G, rows)

resolve_pending_relationships_for_node(G, canonical_id) ==
    LET asTarget == { r \in RelRows : G.pend[r] > 0 /\ r.target_canonical_id = canonical_id }
        G1 == ResolveRows(G, asTarget)
        asSource == { r \in RelRows : G1.pend[r] > 0 /\
                        \E n \in G1.nodes : n.canonical_id = canonical_id /\ n.gid = r.source_gid }
    IN  ResolveRows(G1, asSource)

ResolveForNodes(G, cids) ==
    LET RECURSIVE Go(_, _)
        Go(H, S) == IF S = {} THEN H
                    ELSE LET c == CHOOSE x \in S : TRUE
                         IN Go(resolve_pending_relationships_for_node(H, c), S \ {c})
    IN  Go(G, cids)

LabelGroups(N) == { n.labels : n \in N }

\* result.single()["count"] if result.single() else 0: when single() exhausts the
\* result the second call returns None and the subscript raises inside the try, so
\* the loop over canonical_ids (main.py 146-147) is not reached.
IngestGroup(G, group, exhausts) ==
    LET G1 == MergeNodes(G, group)
    IN  IF exhausts THEN G1
        ELSE ResolveForNodes(G1, { n.canonical_id : n \in group })

ingest_nodes(G, N, failing, exhausts) ==
    LET RECURSIVE Go(_, _)
        Go(H, Ls) ==
            IF Ls = {} THEN H
            ELSE LET l == CHOOSE x \in Ls : TRUE
                 IN  IF l \in failing THEN Go(H, Ls \ {l})
                     ELSE Go(IngestGroup(H, { n \in N : n.labels = l }, exhausts), Ls \ {l})
    IN  Go(G, LabelGroups(N))

\* a variant without the second, pending, insert of ingest_relationships
PendingBatch_none(G, rows) == {}

\* rows the first query of a type group did not return become PendingRelationship nodes
PendingBatch(G, rows) == { r \in rows : Sources(G, r) = {} \/ Targets(G, r) = {} }

IngestTypeGroup(G, rows) ==
    LET created == rows \ PendingBatch(G, rows)
        RECURSIVE Go(_, _)
        Go(E, S) == IF S = {} THEN E
                    ELSE LET r == CHOOSE x \in S : TRUE
                         IN Go(MergeEdgesOfRow(G, E, r, TRUE), S \ {r})
    IN  [G EXCEPT !.edges = Go(G.edges, created),
                  !.pend = [ r \in RelRows |->
                               IF r \in PendingBatch(G, rows) THEN G.pend[r] + 1 ELSE G.pend[r] ]]

ingest_relationships(G, R, failing) ==
    LET RECURSIVE Go(_, _)
        Go(H, Ts) ==
            IF Ts = {} THEN H
            ELSE LET t == CHOOSE x \in Ts : TRUE
                 IN  IF t \in failing THEN Go(H, Ts \ {t})
                     ELSE Go(IngestTypeGroup(H, { r \in R : r.type = t }), Ts \ {t})
    IN  Go(G, { r.type : r \in R })

\* MATCH (n {gid: $gid}) OPTIONAL MATCH (n)-[r:CONTAINS|DEFINES]->(child)
\* WITH collect(n) + collect(child) as nodes          (main.py 404-408)
CascadeTypes == {"CONTAINS", "DEFINES"}

CascadeSet(G, gid) ==
    LET ns == { n \in G.nodes : n.gid = gid }
        children == { c \in G.nodes : \E e \in G.edges, n \in ns :
                        e.src = Key(n) /\ e.dst = Key(c) /\ e.type \in CascadeTypes }
    IN  ns \cup children

DeleteOne(G, gid) ==
    LET dead == CascadeSet(G, gid)
        keys == { Key(n) : n \in dead }
    IN  [nodes |-> G.nodes \ dead,
         edges |-> { e \in G.edges : e.src \notin keys /\ e.dst \notin keys },
         pend  |-> [ r \in RelRows |->
                       IF r.source_gid \in { n.gid : n \in dead }
                          \/ r.target_canonical_id \in { n.canonical_id : n \in dead }
                       THEN 0 ELSE G.pend[r] ]]

delete_nodes(G, D, failing) ==
    LET RECURSIVE Go(_, _)
        Go(H, S) == IF S = {} THEN H
                    ELSE LET g == CHOOSE x \in S : TRUE
                         IN  IF g \in failing THEN Go(H, S \ {g})
                             ELSE Go(DeleteOne(H, g), S \ {g})
    IN  Go(G, D)

SpecMatches(s, source_gid, target_canonical_id, type) ==
    /\ source_gid = s.source_gid
    /\ target_canonical_id = s.target_canonical_id
    /\ (s.type = NoType \/ type = s.type)

\* the second query (pending) comes after result.single()["deleted"] if
\* result.single() else 0 in the same try (main.py 474-494)
DeleteOneRel(G, s, exhausts) ==
    [nodes |-> G.nodes,
     edges |-> { e \in G.edges :
                   ~ SpecMatches(s, e.src[1], NodeAt(G, e.dst).canonical_id, e.type) },
     pend  |-> IF exhausts THEN G.pend
               ELSE [ r \in RelRows |->
                        IF SpecMatches(s, r.source_gid, r.target_canonical_id, r.type)
                        THEN 0 ELSE G.pend[r] ]]

delete_relationships(G, S, failing, exhausts) ==
    LET RECURSIVE Go(_, _)
        Go(H, T) == IF T = {} THEN H
                    ELSE LET s == CHOOSE x \in T : TRUE
                         IN  IF s \in failing THEN Go(H, T \ {s})
                             ELSE Go(DeleteOneRel(H, s, exhausts), T \ {s})
    IN  Go(G, S)

\* MATCH (pr:PendingRelationship) RETURN ... LIMIT batch_size: any batch_size of them
Batches(P) ==
    LET n == IF BagSize(P) < RELATIONSHIP_BATCH_SIZE THEN BagSize(P) ELSE RELATIONSHIP_BATCH_SIZE
    IN  { b \in [RelRows -> 0..RELATIONSHIP_BATCH_SIZE] :
            (\A r \in RelRows : b[r] <= P[r]) /\ BagSize(b) = n }

BatchRows(b) == { r \in RelRows : b[r] > 0 }

\* one turn of the while loop after the fetch: a query per relationship type
ResolveBatch(G, b, failing) == ResolveRows(G, { r \in BatchRows(b) : r.type \notin failing })

-----------------------------------------------------------------------------
(* The ingestion worker: process_message on the consumer thread *)

NoTime == -1
NoCounts == << -1, -1, -1 >>

Slots == 1..MaxSlots

G == Graph(nodes, edges, pend)

Counts == << Cardinality(nodes), Cardinality(edges), BagSize(pend) >>

\* history: a row whose source node is present is due from the moment its target
\* node is ingested until no PendingRelationship of the row is left
DueNext(H, newly) ==
    [ r \in RelRows |->
        IF H.pend[r] = 0 THEN NoTime
        ELSE IF dueAt[r] # NoTime THEN dueAt[r]
        ELSE IF r \in newly /\ Sources(H, r) # {} THEN now ELSE NoTime ]

SetGraph(H, newly) ==
    /\ nodes' = H.nodes
    /\ edges' = H.edges
    /\ pend' = H.pend
    /\ dueAt' = DueNext(H, newly)

\* a variant that goes from any step straight to the pending-resolution pass
StepsFrom_pass(i, m) == "fetch"

\* `if nodes:`, `if relationships:`, `if nodes_deleted:`, `if relationships_deleted:`
\* then resolve_pending_relationships() for every message      (main.py 524-545)
StepsFrom(i, m) ==
    LET todo == << m.nodes_upserted # {}, m.relationships_upserted # {},
                   m.nodes_deleted # {}, m.relationships_deleted # {} >>
        names == << "nodes", "rels", "delnodes", "delrels" >>
        later == { j \in i..4 : todo[j] }
    IN  IF later = {} THEN "fetch"
        ELSE names[CHOOSE j \in later : \A k \in later : j <= k]

\* nodes reachable from the File nodes among the deleted gids by CONTAINS|DEFINES edges
Reachable(H, D) ==
    LET start == { n \in H.nodes : n.gid \in D /\ "File" \in Range(n.labels) }
        RECURSIVE Grow(_)
        Grow(S) ==
            LET more == { c \in H.nodes : \E e \in H.edges, n \in S :
                            e.src = Key(n) /\ e.dst = Key(c) /\ e.type \in CascadeTypes }
            IN  IF more \subseteq S THEN S ELSE Grow(S \cup more)
    IN  Grow(start)

\* basic_consume delivers the next body: a new publication or a requeued one.
\* msg, outcome and the histories of a delivery are kept while cpc = "done", so that
\* the same body arriving next can be told from any other body.
Deliver(body) ==
    /\ cpc \in {"idle", "done"}
    /\ cpc = "done" => body = msg
    /\ deliveries < MaxDeliveries
    /\ deliveries' = deliveries + 1
    /\ msg' = body
    /\ requeued' = requeued \ {body}
    /\ outcome' = "none"
    /\ failedOps' = {}
    /\ cpc' = IF body = Malformed THEN "nack" ELSE StepsFrom(1, body)
    /\ onceCounts' = IF cpc = "done" /\ outcome = "ack" /\ failedOps = {}
                     THEN Counts ELSE NoCounts
    /\ startPend' = { r \in RelRows : pend[r] > 0 /\ Sources(G, r) # {} }
    /\ doomed' = {}
    /\ UNCHANGED << nodes, edges, pend, singleExhausts, cbatch, nackRequeue,
                    sdpc, sbatch, now, skipped, dueAt >>
    /\ UNCHANGED << watcherVars, analysisVars >>

\* the callback has returned and the consumer waits for another body
Return ==
    /\ cpc = "done"
    /\ cpc' = "idle"
    /\ msg' = Malformed
    /\ outcome' = "none"
    /\ failedOps' = {}
    /\ onceCounts' = NoCounts
    /\ startPend' = {}
    /\ doomed' = {}
    /\ UNCHANGED << nodes, edges, pend, singleExhausts, cbatch, nackRequeue, requeued,
                    deliveries, sdpc, sbatch, now, skipped, dueAt >>
    /\ UNCHANGED << watcherVars, analysisVars >>

\* json.loads(body) or payload.get raises: except -> basic_nack(requeue=True)
Nack ==
    /\ cpc = "nack"
    /\ outcome' = "nack"
    /\ nackRequeue' = TRUE
    /\ requeued' = requeued \cup {msg}
    /\ cpc' = "done"
    /\ UNCHANGED << nodes, edges, pend, singleExhausts, msg, cbatch, deliveries, failedOps,
                    sdpc, sbatch, now, skipped, onceCounts, startPend, doomed, dueAt >>
    /\ UNCHANGED << watcherVars, analysisVars >>

Failed(op, failing) == IF failing = {} THEN failedOps ELSE failedOps \cup {op}

IngestNodes ==
    /\ cpc = "nodes"
    /\ \E failing \in SUBSET LabelGroups(msg.nodes_upserted) :
         LET written == { n \in msg.nodes_upserted : n.labels \notin failing }
             newly == { r \in RelRows : pend[r] > 0 /\
                          r.target_canonical_id \in { n.canonical_id : n \in written } }
         IN  /\ SetGraph(ingest_nodes(G, msg.nodes_upserted, failing, singleExhausts), newly)
             /\ failedOps' = Failed("nodes", failing)
    /\ cpc' = StepsFrom(2, msg)
    /\ UNCHANGED << singleExhausts, msg, cbatch, outcome, nackRequeue, requeued, deliveries,
                    sdpc, sbatch, now, skipped, onceCounts, startPend, doomed >>
    /\ UNCHANGED << watcherVars, analysisVars >>

IngestRelationships ==
    /\ cpc = "rels"
    /\ \E failing \in SUBSET { r.type : r \in msg.relationships_upserted } :
         /\ SetGraph(ingest_relationships(G, msg.relationships_upserted, failing), {})
         /\ failedOps' = Failed("rels", failing)
    /\ cpc' = StepsFrom(3, msg)
    /\ UNCHANGED << singleExhausts, msg, cbatch, outcome, nackRequeue, requeued, deliveries,
                    sdpc, sbatch, now, skipped, onceCounts, startPend, doomed >>
    /\ UNCHANGED << watcherVars, analysisVars >>

DeleteNodes ==
    /\ cpc = "delnodes"
    /\ \E failing \in SUBSET msg.nodes_deleted :
         /\ SetGraph(delete_nodes(G, msg.nodes_deleted, failing), {})
         /\ failedOps' = Failed("delnodes", failing)
    /\ doomed' = Reachable(G, msg.nodes_deleted)
    /\ cpc' = StepsFrom(4, msg)
    /\ UNCHANGED << singleExhausts, msg, cbatch, outcome, nackRequeue, requeued, deliveries,
                    sdpc, sbatch, now, skipped, onceCounts, startPend >>
    /\ UNCHANGED << watcherVars, analysisVars >>

DeleteRelationships ==
    /\ cpc = "delrels"
    /\ \E failing \in SUBSET msg.relationships_deleted :
         /\ SetGraph(delete_relationships(G, msg.relationships_deleted, failing, singleExhausts), {})
         /\ failedOps' = Failed("delrels", failing)
    /\ cpc' = "fetch"
    /\ UNCHANGED << singleExhausts, msg, cbatch, outcome, nackRequeue, requeued, deliveries,
                    sdpc, sbatch, now, skipped, onceCounts, startPend, doomed >>
    /\ UNCHANGED << watcherVars, analysisVars >>

\* resolve_pending_relationships, the head of `while True`: fetch a batch; an empty
\* batch breaks; a raise leaves through the except of line 368.
\* ok = FALSE: the fetch query raised.
AfterFetch(ok, b) == IF ~ok \/ BagSize(b) = 0 THEN "done" ELSE "resolve"

\* ... and its tail: `if len(batch) < batch_size: break`
AfterResolve(b) == IF BagSize(b) < RELATIONSHIP_BATCH_SIZE THEN "done" ELSE "fetch"

ConsumerPc(p) == IF p = "done" THEN "ack" ELSE p

ConsumerFetch ==
    /\ cpc = "fetch"
    /\ \E ok \in BOOLEAN, b \in Batches(pend) :
         /\ cpc' = ConsumerPc(AfterFetch(ok, b))
         /\ cbatch' = IF AfterFetch(ok, b) = "resolve" THEN b ELSE EmptyBag
         /\ failedOps' = IF ok THEN failedOps ELSE failedOps \cup {"resolve"}
    /\ UNCHANGED << nodes, edges, pend, singleExhausts, msg, outcome, nackRequeue, requeued,
                    deliveries, sdpc, sbatch, now, skipped, onceCounts, startPend,
                    doomed, dueAt >>
    /\ UNCHANGED << watcherVars, analysisVars >>

ConsumerResolve ==
    /\ cpc = "resolve"
    /\ \E failing \in SUBSET { r.type : r \in BatchRows(cbatch) } :
         /\ SetGraph(ResolveBatch(G, cbatch, failing), {})
         /\ failedOps' = Failed("resolve", failing)
    /\ cpc' = ConsumerPc(AfterResolve(cbatch))
    /\ cbatch' = EmptyBag
    /\ UNCHANGED << singleExhausts, msg, outcome, nackRequeue, requeued, deliveries,
                    sdpc, sbatch, now, skipped, onceCounts, startPend, doomed >>
    /\ UNCHANGED << watcherVars, analysisVars >>

\* ch.basic_ack(delivery_tag=method.delivery_tag)                 (main.py 549)
Ack ==
    /\ cpc = "ack"
    /\ outcome' = "ack"
    /\ cpc' = "done"
    /\ UNCHANGED << nodes, edges, pend, singleExhausts, msg, cbatch, nackRequeue, requeued,
                    deliveries, failedOps, sdpc, sbatch, now, skipped, onceCounts,
                    startPend, doomed, dueAt >>
    /\ UNCHANGED << watcherVars, analysisVars >>

-----------------------------------------------------------------------------
(* The BackgroundScheduler: IntervalTrigger, max_instances *)

Running == { s \in Slots : sdpc[s] # "off" }

SchedPc(p) == IF p = "done" THEN "off" ELSE p

\* a variant of the scheduler without the max_instances limit
MaySubmit_always(running) == TRUE

\* may the job be submitted to the pool now?
MaySubmit(running) == Cardinality(running) < max_instances

\* The trigger fires, one interval after it last did: the job is submitted unless
\* max_instances of it are running.  The clock counts these intervals.
SchedulerFire ==
    /\ now < MaxTime
    /\ now' = now + RELATIONSHIP_RESOLUTION_INTERVAL
    /\ IF MaySubmit(Running) /\ Running # Slots
       THEN /\ sdpc' = [sdpc EXCEPT ![CHOOSE s \in Slots \ Running :
                                        \A t \in Slots \ Running : s <= t] = "fetch"]
            /\ UNCHANGED skipped
       ELSE /\ skipped' = TRUE
            /\ UNCHANGED sdpc
    /\ UNCHANGED << nodes, edges, pend, singleExhausts, cpc, msg, cbatch, outcome, nackRequeue,
                    requeued, deliveries, failedOps, sbatch, onceCounts, startPend,
                    doomed, dueAt >>
    /\ UNCHANGED << watcherVars, analysisVars >>

SchedulerFetch(s) ==
    /\ sdpc[s] = "fetch"
    /\ \E ok \in BOOLEAN, b \in Batches(pend) :
         /\ sdpc' = [sdpc EXCEPT ![s] = SchedPc(AfterFetch(ok, b))]
         /\ sbatch' = [sbatch EXCEPT ![s] = IF AfterFetch(ok, b) = "resolve" THEN b ELSE EmptyBag]
    /\ UNCHANGED << nodes, edges, pend, singleExhausts, cpc, msg, cbatch, outcome, nackRequeue,
                    requeued, deliveries, failedOps, now, skipped, onceCounts,
                    startPend, doomed, dueAt >>
    /\ UNCHANGED << watcherVars, analysisVars >>

SchedulerResolve(s) ==
    /\ sdpc[s] = "resolve"
    /\ \E failing \in SUBSET { r.type : r \in BatchRows(sbatch[s]) } :
         SetGraph(ResolveBatch(G, sbatch[s], failing), {})
    /\ sdpc' = [sdpc EXCEPT ![s] = SchedPc(AfterResolve(sbatch[s]))]
    /\ sbatch' = [sbatch EXCEPT ![s] = EmptyBag]
    /\ UNCHANGED << singleExhausts, cpc, msg, cbatch, outcome, nackRequeue, requeued,
                    deliveries, failedOps, now, skipped, onceCounts, startPend, doomed >>
    /\ UNCHANGED << watcherVars, analysisVars >>

-----------------------------------------------------------------------------
(* The file watcher: FileChangeHandler and the publisher behind it *)

MaxClock == 4           \* watcher time that is explored, in units of DEBOUNCE_MS / 2
MaxJobs == 2            \* events are explored while fewer jobs than this were published

DEBOUNCE_MS == 2

IGNORED_PATTERNS == {"node_modules", ".git", "__pycache__", "venv", ".env"}

\* a path: its text, its Path.suffix, and the ignore patterns that occur in the text
Paths ==
    { [text |-> "src/a.py",          suffix |-> ".py",  has |-> {}],
      [text |-> "src/b.py",          suffix |-> ".py",  has |-> {}],
      [text |-> "src/notes.txt",     suffix |-> ".txt", has |-> {}],
      [text |-> "node_modules/m.py", suffix |-> ".py",  has |-> {"node_modules"}] }

PathTexts == { p.text : p \in Paths }

EventTypes == {"CREATED", "MODIFIED", "DELETED"}

\* fnmatch(path_str, "*pattern*") for some configured pattern
should_ignore_path(path) == path.has \cap IGNORED_PATTERNS # {}

\* a debounce in which a deletion leaves the entry of the path in place
should_process_now_keeps(ts, file_path, event_type, current_time) ==
    IF event_type = "DELETED"
    THEN [ts |-> ts, emit |-> TRUE]
    ELSE IF ts[file_path] = NoTime
         THEN [ts |-> [ts EXCEPT ![file_path] = current_time], emit |-> FALSE]
         ELSE [ts |-> [ts EXCEPT ![file_path] = current_time],
               emit |-> current_time - ts[file_path] >= DEBOUNCE_MS]

\* a variant that lets an event through only after more than DEBOUNCE_MS
should_process_now_strict(ts, file_path, event_type, current_time) ==
    IF event_type = "DELETED"
    THEN [ts |-> [ts EXCEPT ![file_path] = NoTime], emit |-> TRUE]
    ELSE IF ts[file_path] = NoTime
         THEN [ts |-> [ts EXCEPT ![file_path] = current_time], emit |-> FALSE]
         ELSE [ts |-> [ts EXCEPT ![file_path] = current_time],
               emit |-> current_time - ts[file_path] > DEBOUNCE_MS]

\* returns the table and whether the event is to be processed now
should_process_now(ts, file_path, event_type, current_time) ==
    IF event_type = "DELETED"
    THEN [ts |-> [ts EXCEPT ![file_path] = NoTime], emit |-> TRUE]
    ELSE IF ts[file_path] = NoTime
         THEN [ts |-> [ts EXCEPT ![file_path] = current_time], emit |-> FALSE]
         ELSE [ts |-> [ts EXCEPT ![file_path] = current_time],
               emit |-> current_time - ts[file_path] >= DEBOUNCE_MS]

Job(path, event_type) == [file_path |-> path.text, event_type |-> event_type]

\* sent = FALSE: every attempt of basic_publish raised and the message was dropped
publish_with_retry(jobs, message, sent) == IF sent THEN Append(jobs, message) ELSE jobs

\* W = [ts, jobs]: the debounce table and the jobs on the queue
process_event(W, path, is_directory, event_type, current_time, sent) ==
    IF is_directory THEN W
    ELSE IF path.suffix # ".py" THEN W
    ELSE IF should_ignore_path(path) THEN W
    ELSE LET d == should_process_now(W.ts, path.text, event_type, current_time)
         IN  [ts |-> d.ts,
              jobs |-> IF d.emit
                       THEN publish_with_retry(W.jobs, Job(path, event_type), sent)
                       ELSE W.jobs]

\* on_any_event calls on_created / on_modified / on_deleted for the three known types
on_any_event(W, path, is_directory, event_type, current_time, sent) ==
    IF event_type \in EventTypes
    THEN process_event(W, path, is_directory, event_type, current_time, sent)
    ELSE W

\* the events _process_event lets through to the debounce; the history below is kept
\* for these
Watched(path, is_directory) ==
    ~ is_directory /\ path.suffix = ".py" /\ ~ should_ignore_path(path)

\* history of the modifications of one file: a run of MODIFIED events goes on while each
\* follows the previous one by at most DEBOUNCE_MS; emitted: MODIFIED jobs just published
BurstNext(text, event_type, emitted) ==
    IF event_type # "MODIFIED" THEN 0
    ELSE IF lastEvent[text] # NoTime /\ wnow - lastEvent[text] <= DEBOUNCE_MS
         THEN burst[text] + emitted
         ELSE emitted

\* a save storm: a run of MODIFIED events in which each follows the previous one by
\* less than DEBOUNCE_MS
StormNext(text, event_type, emitted) ==
    IF event_type # "MODIFIED" THEN 0
    ELSE IF lastEvent[text] # NoTime /\ wnow - lastEvent[text] < DEBOUNCE_MS
         THEN storm[text] + emitted
         ELSE emitted

\* The observer thread hands one filesystem event to the handler: the framework calls
\* on_any_event and then the handler of the event's type.
Dispatch(path, is_directory, event_type, sent) ==
    /\ Len(wjobs) < MaxJobs
    /\ LET W0 == [ts |-> file_timestamps, jobs |-> wjobs]
           W1 == on_any_event(W0, path, is_directory, event_type, wnow, sent[1])
           W2 == process_event(W1, path, is_directory, event_type, wnow, sent[2])
       IN  /\ file_timestamps' = W2.ts
           /\ wjobs' = W2.jobs
           /\ IF ~ Watched(path, is_directory)
              THEN UNCHANGED << lastEvent, burst, prevEvent, storm, lastType >>
              ELSE /\ lastEvent' = [lastEvent EXCEPT ![path.text] =
                                      IF event_type = "MODIFIED" THEN wnow ELSE NoTime]
                   /\ burst' = [burst EXCEPT ![path.text] =
                                  BurstNext(path.text, event_type, Len(W2.jobs) - Len(wjobs))]
                   /\ prevEvent' = [prevEvent EXCEPT ![path.text] = wnow]
                   /\ lastType' = [lastType EXCEPT ![path.text] = event_type]
                   /\ storm' = [storm EXCEPT ![path.text] =
                                  StormNext(path.text, event_type, Len(W2.jobs) - Len(wjobs))]
    /\ lastDeleted' = IF ~ is_directory /\ event_type = "DELETED" /\ sent = << TRUE, TRUE >>
                      THEN path.text
                      ELSE lastDeleted
    /\ UNCHANGED wnow
    /\ UNCHANGED << ingestVars, analysisVars >>

\* time.time() moves on
Advance ==
    /\ wnow < MaxClock
    /\ wnow' = wnow + 1
    /\ UNCHANGED << file_timestamps, lastEvent, wjobs, burst, prevEvent, storm, lastType, lastDeleted >>
    /\ UNCHANGED << ingestVars, analysisVars >>

-----------------------------------------------------------------------------
(* ingest_nodes called with arbitrary label sets *)

MaxBatch == 2           \* nodes in one call of ingest_nodes

\* stubs of two entities, each under several label sets
LabelSets == { <<"Class">>, <<"Function">>, <<"Class", "Python">> }

LabelledStubs ==
    { [gid |-> StubOf(x).gid, canonical_id |-> x, labels |-> l, file_path |-> "a.py"] :
        x \in {"x1", "x2"}, l \in LabelSets }

\* one call of ingest_nodes; failing: the label groups whose query raises
UpsertNodes(N, failing) ==
    /\ LET H == ingest_nodes(G, N, failing, singleExhausts)
       IN  /\ nodes' = H.nodes
           /\ edges' = H.edges
           /\ pend' = H.pend
    /\ UNCHANGED << singleExhausts, cpc, msg, cbatch, outcome, nackRequeue, requeued,
                    deliveries, failedOps, sdpc, sbatch, now, skipped, onceCounts,
                    startPend, doomed, dueAt >>
    /\ UNCHANGED << watcherVars, analysisVars >>

-----------------------------------------------------------------------------
(* The scan orchestrator (services/scan_orchestrator.py) *)

MaxScans == 2           \* scan triggers that are explored

\* Python's None: what dict.get returns for a missing key
None == "None"

Get(message, key) == IF key \in DOMAIN message THEN message[key] ELSE None

PYTHON_ANALYZER_QUEUE == "bmcp.jobs.analysis.python"
JS_ANALYZER_QUEUE == "bmcp.jobs.analysis.js"

EXTENSION_TO_QUEUE(ext) ==
    CASE ext = ".py" -> PYTHON_ANALYZER_QUEUE
      [] ext = ".js" -> JS_ANALYZER_QUEUE
      [] OTHER -> None

\* the root of the code base, and a root_path that does not exist
CODEBASE_ROOT == "/codebase"
NoSuchRoot == "/nowhere"

\* os.walk(root_path): the files under the root in the order the walk yields them
Walk == CHOOSE w \in [1..Cardinality(Paths) -> Paths] : Range(w) = Paths

PathOf(text) == CHOOSE path \in Paths : path.text = text

\* str(uuid.uuid4()): the n-th identifier drawn differs from all drawn before
UuidPool == << "u1", "u2", "u3", "u4", "u5", "u6", "u7", "u8" >>
uuid4(n) == UuidPool[n]

\* uuids one scan draws: one per file that has an analyzer queue
DrawnPerScan == Cardinality({ i \in 1..Len(Walk) : EXTENSION_TO_QUEUE(Walk[i].suffix) # None })

ScanJob(file_path, id) == [file_path |-> file_path, id |-> id]

\* the loop over the files; Q: the messages published so far, drawn: uuids drawn so
\* far, failing: the files for which basic_publish raises
RECURSIVE dispatch_files(_, _, _, _)
dispatch_files(i, Q, drawn, failing) ==
    IF i > Len(Walk) THEN Q
    ELSE LET queue == EXTENSION_TO_QUEUE(Walk[i].suffix)
             message == ScanJob(Walk[i].text, uuid4(drawn + 1))
         IN  IF queue = None
             THEN dispatch_files(i + 1, Q, drawn, failing)
             ELSE dispatch_files(i + 1,
                                 IF Walk[i].text \in failing
                                 THEN Q
                                 ELSE Append(Q, [routing_key |-> queue, body |-> message]),
                                 drawn + 1, failing)

scan_and_dispatch(Q, root_path, drawn, failing) ==
    IF root_path # CODEBASE_ROOT THEN Q ELSE dispatch_files(1, Q, drawn, failing)

ScanBodies ==
    { [action |-> "full_scan", root_path |-> CODEBASE_ROOT],
      [action |-> "full_scan", root_path |-> NoSuchRoot],
      [action |-> "incremental", root_path |-> CODEBASE_ROOT],
      [action |-> "full_scan"],
      Malformed }

\* on_message of the orchestrator handles one scan trigger
OnMessage(body, failing) ==
    /\ scans < MaxScans
    /\ scans' = scans + 1
    /\ sbody' = body
    /\ IF body = Malformed
       THEN scanAnswer' = "nack" /\ squeue' = squeue
       ELSE IF Get(body, "root_path") = None
       THEN scanAnswer' = "ack" /\ squeue' = squeue
       ELSE /\ squeue' = IF Get(body, "action") = "full_scan"
                         THEN scan_and_dispatch(squeue, body.root_path,
                                                scans * DrawnPerScan, failing)
                         ELSE squeue
            /\ scanAnswer' = "ack"
    /\ UNCHANGED << abody, aenv, aanswer, arequeue, apublished >>
    /\ UNCHANGED << ingestVars, watcherVars, publisherVars, resolverVars, startupVars >>

-----------------------------------------------------------------------------
(* The Python analyzer (services/analyzers/python_analyzer/main.py) *)

\* what open() and ast.parse find at file_path: no file, a file that does not parse,
\* a module defining function f, the same with a call g() inside f
Contents == {"missing", "syntax_error", "plain", "calls"}

\* the service that is down while the job is handled
Faults == {"none", "id_service", "postgres", "broker"}

\* the value of a key that dict.get(key, '') finds missing, and of a removed '' value
Empty == << >>

\* IdServiceClient.generate_id: canonical_id and gid of an entity
generate_id(file_path, entity_type, name) ==
    [canonical_id |-> << "python", file_path, entity_type, name >>,
     gid |-> << "gid", file_path, entity_type, name >>]

AstNode(file_path, entity_type, name) ==
    [type |-> entity_type, name |-> name, path |-> file_path,
     canonical_id |-> generate_id(file_path, entity_type, name).canonical_id,
     gid |-> generate_id(file_path, entity_type, name).gid]

NoAnalysis == [nodes |-> {}, relationships |-> {}]

\* analyze_python_file: every exception is caught and gives ([], []); an RpcError in
\* visit_Module is caught there, before the File node is appended and the children
\* are visited
analyze_python_file(file_path, content, fault) ==
    IF content \in {"missing", "syntax_error"} THEN NoAnalysis
    ELSE IF fault = "id_service" THEN NoAnalysis
    ELSE [nodes |-> { AstNode(file_path, "File", file_path),
                      AstNode(file_path, "Function", "f") },
          relationships |->
              IF content = "calls"
              THEN { [source_canonical_id |->
                          generate_id(file_path, "Function", "f").canonical_id,
                      target_canonical_id |-> << "python", "Function", "g" >>,
                      type |-> ":CALLS"] }
              ELSE {}]

\* the External node synthesized for a relationship target that is no node of the file
external_node(t) == [type |-> "External", name |-> t, canonical_id |-> t, external |-> TRUE]

create_analysis_node_stubs(ns) ==
    { [gid |-> IF "gid" \in DOMAIN n THEN n.gid ELSE Empty,
       canonical_id |-> n.canonical_id,
       name |-> n.name,
       file_path |-> IF "path" \in DOMAIN n THEN n.path ELSE Empty,
       labels |-> << n.type >>] : n \in ns }

create_analysis_relationship_stubs(rs) ==
    { [source_gid |-> r.source_canonical_id,
       target_canonical_id |-> r.target_canonical_id,
       type |-> r.type] : r \in rs }

AnalyzerResultPayload(file_path, node_stubs, relationship_stubs) ==
    [file_path |-> file_path, language |-> "python", error |-> None,
     nodes_upserted |-> node_stubs, relationships_upserted |-> relationship_stubs,
     nodes_deleted |-> {}, relationships_deleted |-> {}]

Acked(published) == [answer |-> "ack", requeue |-> FALSE, published |-> published]
Nacked == [answer |-> "nack", requeue |-> TRUE, published |-> << >>]

\* process_message of the analyzer: the answer to the delivery and the results published
process_message(body, content, fault) ==
    IF body = Malformed THEN Nacked
    ELSE LET file_path == Get(body, "file_path")
             event_type == Get(body, "event_type")
             msg_id == Get(body, "id")
         IN  IF msg_id = None THEN Acked(<< >>)
             ELSE IF file_path = None THEN Nacked
             ELSE IF PathOf(file_path).suffix # ".py" THEN Acked(<< >>)
             ELSE IF event_type = "DELETED" THEN Acked(<< >>)
             ELSE LET a == analyze_python_file(file_path, content, fault)
                      ids == { n.canonical_id : n \in a.nodes }
                      missing_targets ==
                          { r.target_canonical_id : r \in a.relationships } \ ids
                      all == a.nodes \cup { external_node(t) : t \in missing_targets }
                      filtered_relationships ==
                          { r \in a.relationships :
                              /\ r.source_canonical_id \in ids \cup missing_targets
                              /\ r.target_canonical_id \in ids \cup missing_targets }
                  IN  IF a.nodes = {} THEN Acked(<< >>)
                      ELSE IF fault = "postgres" THEN Nacked
                      ELSE IF fault = "broker" THEN Nacked
                      ELSE Acked(<< AnalyzerResultPayload(
                                        file_path,
                                        create_analysis_node_stubs(all),
                                        create_analysis_relationship_stubs(
                                            filtered_relationships)) >>)

\* the jobs delivered to the analyzer: as the watcher publishes them (file_path and
\* event_type), as the scan publishes them (file_path and id), with all three keys
AnalyzerBodies ==
    { Job(PathOf("src/a.py"), event_type) : event_type \in EventTypes }
      \cup { ScanJob(text, uuid4(1)) : text \in {"src/a.py", "src/notes.txt", "node_modules/m.py"} }
      \cup { [file_path |-> "src/a.py", event_type |-> event_type, id |-> uuid4(1)] :
               event_type \in {"MODIFIED", "DELETED"} }
      \cup { [id |-> uuid4(1)], Malformed }

\* the analyzer handles one delivery
ProcessJob(body, content, fault) ==
    /\ abody' = body
    /\ aenv' = [content |-> content, fault |-> fault]
    /\ LET answered == process_message(body, content, fault)
       IN  /\ aanswer' = answered.answer
           /\ arequeue' = answered.requeue
           /\ apublished' = answered.published
    /\ UNCHANGED << squeue, scans, sbody, scanAnswer >>
    /\ UNCHANGED << ingestVars, watcherVars, publisherVars, resolverVars, startupVars >>

-----------------------------------------------------------------------------
(* The watcher's RabbitMQPublisher (services/file_watcher_service/main.py) *)

MaxMessages == 2        \* messages accepted or given up that are explored

\* RabbitMQPublisher(..., max_retries=5, base_backoff=2.0) in main
max_retries == 5
base_backoff == 2

RABBITMQ_QUEUE == "bmcp.jobs.analysis"

\* the queue the Python analyzer consumes from
RABBITMQ_JOBS_QUEUE == "bmcp.jobs.analysis.python"

\* _process_event calls publish_with_retry(message): attempt = 1
CallPublish(message) ==
    /\ ppc = "idle"
    /\ Len(pqueue) + Len(pdropped) < MaxMessages
    /\ ppc' = "publish"
    /\ pmessage' = message
    /\ attempt' = 1
    /\ psleeps' = << >>
    /\ UNCHANGED << cattempt, pqueue, pdropped >>
    /\ UNCHANGED << ingestVars, watcherVars, resolverVars, startupVars >>
    /\ UNCHANGED << squeue, scans, sbody, scanAnswer, abody, aenv, aanswer, arequeue, apublished >>

\* channel.basic_publish: accepted, and publish_with_retry returns; or it raises, and
\* the except branch calls self._connect()
BasicPublish(raises) ==
    /\ ppc = "publish"
    /\ IF raises
       THEN /\ ppc' = "connect"
            /\ cattempt' = 1
            /\ UNCHANGED pqueue
       ELSE /\ ppc' = "idle"
            /\ pqueue' = Append(pqueue, [routing_key |-> RABBITMQ_QUEUE, body |-> pmessage])
            /\ UNCHANGED cattempt
    /\ UNCHANGED << pmessage, attempt, psleeps, pdropped >>
    /\ UNCHANGED << ingestVars, watcherVars, resolverVars, startupVars >>
    /\ UNCHANGED << squeue, scans, sbody, scanAnswer, abody, aenv, aanswer, arequeue, apublished >>

\* one round of the loop of _connect: connected, and _connect returns; or the attempt
\* raises, is logged and slept on; after max_retries failed rounds sys.exit(2) raises
\* SystemExit, which `except Exception` of publish_with_retry and of _process_event do
\* not catch: the thread that dispatches the events ends
Connect(raises) ==
    /\ ppc = "connect"
    /\ IF ~ raises THEN ppc' = "backoff" /\ UNCHANGED cattempt
       ELSE IF cattempt < max_retries THEN ppc' = "connect" /\ cattempt' = cattempt + 1
       ELSE ppc' = "exited" /\ UNCHANGED cattempt
    /\ UNCHANGED << pmessage, attempt, psleeps, pqueue, pdropped >>
    /\ UNCHANGED << ingestVars, watcherVars, resolverVars, startupVars >>
    /\ UNCHANGED << squeue, scans, sbody, scanAnswer, abody, aenv, aanswer, arequeue, apublished >>

\* time.sleep(self.base_backoff * attempt), then the next round of the loop of
\* publish_with_retry, or after the last round the critical log entry and the return
Backoff ==
    /\ ppc = "backoff"
    /\ psleeps' = Append(psleeps, base_backoff * attempt)
    /\ IF attempt < max_retries
       THEN /\ attempt' = attempt + 1
            /\ ppc' = "publish"
            /\ UNCHANGED pdropped
       ELSE /\ ppc' = "idle"
            /\ pdropped' = Append(pdropped, pmessage)
            /\ UNCHANGED attempt
    /\ UNCHANGED << pmessage, cattempt, pqueue >>
    /\ UNCHANGED << ingestVars, watcherVars, resolverVars, startupVars >>
    /\ UNCHANGED << squeue, scans, sbody, scanAnswer, abody, aenv, aanswer, arequeue, apublished >>

-----------------------------------------------------------------------------
(* The resolver of the API gateway (api_gateway/orchestration.py and            *)
(* api_gateway/orchestration_logic/).  Strings that the code takes apart are    *)
(* sequences of tokens; a Python dict is the sequence of its items, in          *)
(* insertion order.                                                             *)

MaxNodes == 2           \* nodes in an analysis result
MaxRelationships == 1   \* relationships in an analysis result

NODE_TYPE_MAP ==
    [File |-> "File", FunctionDefinition |-> "Function", ClassDefinition |-> "Class",
     MethodDefinition |-> "Method", VariableDeclaration |-> "Variable", Import |-> "Import",
     Parameter |-> "Parameter", Module |-> "Module", InterfaceDefinition |-> "Interface",
     EnumDefinition |-> "Enum", StructDefinition |-> "Struct", TypeAlias |-> "TypeAlias",
     ApiEndpointHint |-> "ApiEndpoint", DatabaseTableHint |-> "Table",
     DatabaseColumnHint |-> "Column", ExternalUrlHint |-> "ExternalUrl",
     EnvironmentVariableHint |-> "EnvironmentVariable", ApiCallHint |-> "ApiCall",
     DatabaseQueryHint |-> "DatabaseQuery", CodeIdentifier |-> "CodeIdentifier",
     Unknown |-> "Unknown"]

REL_TYPE_MAP ==
    [CALLS |-> "CALLS", REFERENCES |-> "REFERENCES", DEFINES |-> "DEFINES",
     CONTAINS |-> "CONTAINS", IMPORTS |-> "IMPORTS", INHERITS_FROM |-> "INHERITS_FROM",
     IMPLEMENTS |-> "IMPLEMENTS", HAS_PARAMETER |-> "HAS_PARAMETER", RETURNS |-> "RETURNS",
     TYPE_ARGUMENT |-> "TYPE_ARGUMENT",
     CALLS_HINT |-> "CALLS", FETCHES_HINT |-> "CALLS_API", QUERIES_HINT |-> "QUERIES",
     READS_HINT |-> "READS", WRITES_HINT |-> "WRITES", ACCESSES_HINT |-> "ACCESSES",
     USES_ENV_VAR_HINT |-> "USES_ENVIRONMENT_VARIABLE",
     CALLS_API |-> "CALLS_API", QUERIES_TABLE |-> "QUERIES_TABLE",
     USES_COLUMN |-> "USES_COLUMN", MODIFIES_TABLE |-> "MODIFIES_TABLE",
     READS_TABLE |-> "READS_TABLE",
     RELATED_TO |-> "RELATED_TO"]

DEFINITION_NODE_TYPES ==
    {"Function", "Class", "Method", "Interface", "Enum", "Struct", "Table", "Column",
     "ApiEndpoint", "EnvironmentVariable", "File", "Module", "Variable"}

\* d.get(key, default)
GetOr(d, key, default) == IF key \in DOMAIN d THEN d[key] ELSE default

\* a dict as the sequence of its items [k, v]
DictHas(d, key) == \E i \in 1..Len(d) : d[i].k = key
DictAt(d, key) == d[CHOOSE i \in 1..Len(d) : d[i].k = key].v
\* d[key] = value: a key already there keeps its place and takes the new value
DictSet(d, key, value) ==
    IF DictHas(d, key)
    THEN [ i \in 1..Len(d) |-> IF d[i].k = key THEN [k |-> key, v |-> value] ELSE d[i] ]
    ELSE Append(d, [k |-> key, v |-> value])
DictValues(d) == [ i \in 1..Len(d) |-> d[i].v ]

\* a set iterated in some order
RECURSIVE SetToSeq(_)
SetToSeq(S) == IF S = {} THEN << >>
               ELSE LET x == CHOOSE y \in S : TRUE IN << x >> \o SetToSeq(S \ {x})

\* str.lower and str.capitalize, on the words that occur
lower(w) == CASE w = "Python" -> "python" [] w = "PYTHON" -> "python" [] OTHER -> w
capitalize(w) == CASE w = "python" -> "Python" [] w = "PYTHON" -> "Python" [] OTHER -> w

\* analyzer_name.split('_')[0]
split0(analyzer_name) ==
    IF \E i \in 1..Len(analyzer_name) : analyzer_name[i] = "_"
    THEN LET i == CHOOSE j \in 1..Len(analyzer_name) :
                     analyzer_name[j] = "_" /\ \A h \in 1..(j - 1) : analyzer_name[h] # "_"
         IN  IF i = 2 THEN analyzer_name[1] ELSE ""
    ELSE analyzer_name[1]

\* node.properties.get("language", analyzer_name.split('_')[0]).lower()
LanguageOf(node, analyzer_name) ==
    lower(GetOr(node.properties, "language", split0(analyzer_name)))

generate_preliminary_global_id(node, analyzer_name, file_path) ==
    LET candidate == IF node.global_id_candidate # Empty THEN node.global_id_candidate
                     ELSE << file_path, "::", node.node_type, "::", node.local_id >>
        normalized_candidate ==
            [ i \in 1..Len(candidate) |-> IF candidate[i] = "\\" THEN "/" ELSE candidate[i] ]
    IN  << LanguageOf(node, analyzer_name), "::" >> \o normalized_candidate

\* f"Original_{node_type}", on the node types that occur
OriginalLabel(node_type) ==
    CASE node_type = "Widget" -> "Original_Widget" [] OTHER -> "Original_"

\* the set `labels` of get_final_node_labels
LabelSet(node_type, language) ==
    LET mapped_type == GetOr(NODE_TYPE_MAP, node_type, "Unknown")
    IN  {mapped_type}
        \cup (IF language # "" THEN {capitalize(language)} ELSE {})
        \cup (IF mapped_type = "Unknown" /\ node_type # "Unknown"
              THEN {OriginalLabel(node_type)} ELSE {})

\* list(labels): the order in which a set of strings is iterated depends on the
\* hashes of the strings, which differ from one interpreter run to the next.
\* first: the kind of label that comes first in this run.
get_final_node_labels(node_type, language, first) ==
    LET labels == LabelSet(node_type, language)
        mapped_type == GetOr(NODE_TYPE_MAP, node_type, "Unknown")
        head == IF first = "language" /\ language # "" THEN capitalize(language)
                ELSE IF first = "original" /\ OriginalLabel(node_type) \in labels
                     THEN OriginalLabel(node_type)
                ELSE mapped_type
    IN  << head >> \o SetToSeq(labels \ {head})

\* Pass 1: nodes_by_local_key and the relationships with their source key, over the
\* results whose status is SUCCESS
NodeItems(result) ==
    [ j \in 1..Len(result.nodes) |->
        [k |-> << result.analyzer_name, result.file_path, result.nodes[j].local_id >>,
         v |-> result.nodes[j]] ]

RelItems(result) ==
    [ j \in 1..Len(result.relationships) |->
        [k |-> << result.analyzer_name, result.file_path,
                  result.relationships[j].source_node_local_id >>,
         v |-> result.relationships[j]] ]

RECURSIVE Collected(_, _, _)
Collected(analysis_results, i, what) ==
    IF i > Len(analysis_results) THEN << >>
    ELSE (IF analysis_results[i].status # "SUCCESS" THEN << >>
          ELSE IF what = "nodes" THEN NodeItems(analysis_results[i])
          ELSE RelItems(analysis_results[i]))
         \o Collected(analysis_results, i + 1, what)

RECURSIVE DictOf(_, _, _)
DictOf(items, i, d) ==
    IF i > Len(items) THEN d ELSE DictOf(items, i + 1, DictSet(d, items[i].k, items[i].v))

nodes_by_local_key(analysis_results) == DictOf(Collected(analysis_results, 1, "nodes"), 1, << >>)

\* relationships_by_source.items(), flattened: the source keys in the order of their
\* first relationship, each with its relationships in input order
RECURSIVE BySource(_, _, _)
BySource(items, i, seen) ==
    IF i > Len(items) THEN << >>
    ELSE IF items[i].k \in seen THEN BySource(items, i + 1, seen)
    ELSE SelectSeq(items, LAMBDA x : x.k = items[i].k)
         \o BySource(items, i + 1, seen \cup {items[i].k})

relationships_by_source(analysis_results) ==
    BySource(Collected(analysis_results, 1, "relationships"), 1, {})

\* Pass 2: resolved_global_ids
resolved_global_ids(by_key) ==
    [ i \in 1..Len(by_key) |->
        [k |-> by_key[i].k,
         v |-> generate_preliminary_global_id(by_key[i].v, by_key[i].k[1], by_key[i].k[2])] ]

is_definition(node, analyzer_name) ==
    LabelSet(node.node_type, LanguageOf(node, analyzer_name)) \cap DEFINITION_NODE_TYPES # {}

\* Pass 2: definition_registry, global_id -> local_key, the original kept
RECURSIVE definition_registry(_, _, _)
definition_registry(by_key, i, registry) ==
    IF i > Len(by_key) THEN registry
    ELSE LET local_key == by_key[i].k
             global_id == generate_preliminary_global_id(by_key[i].v, local_key[1], local_key[2])
         IN  IF is_definition(by_key[i].v, local_key[1]) /\ ~ DictHas(registry, global_id)
             THEN definition_registry(by_key, i + 1, Append(registry, [k |-> global_id, v |-> local_key]))
             ELSE definition_registry(by_key, i + 1, registry)

\* Pass 3: the GraphNode built for a node
GraphNode(local_key, node, first) ==
    LET lang == LanguageOf(node, local_key[1])
        final_labels == get_final_node_labels(node.node_type, lang, first)
        named == IF "name" \notin DOMAIN node.properties /\ "identifier" \in DOMAIN node.properties
                 THEN [name |-> node.properties.identifier] ELSE << >>
        props == [analyzer |-> local_key[1], language |-> lang,
                  original_node_type |-> node.node_type, original_file_path |-> local_key[2],
                  neo4j_labels |-> final_labels] @@ named @@ node.properties
    IN  [global_id |-> generate_preliminary_global_id(node, local_key[1], local_key[2]),
         node_type |-> final_labels[1],
         properties |-> props,
         location |-> node.location,
         code_snippet |-> node.code_snippet]

\* Pass 3: final_nodes, global_id -> GraphNode, no merging of a node already there
RECURSIVE final_nodes(_, _, _, _)
final_nodes(by_key, i, first, final) ==
    IF i > Len(by_key) THEN final
    ELSE LET n == GraphNode(by_key[i].k, by_key[i].v, first)
         IN  IF DictHas(final, n.global_id) THEN final_nodes(by_key, i + 1, first, final)
             ELSE final_nodes(by_key, i + 1, first, Append(final, [k |-> n.global_id, v |-> n]))

\* str.strip("/")
strip(t) ==
    LET keep == { i \in 1..Len(t) : t[i] # "/" }
    IN  IF keep = {} THEN << >>
        ELSE SubSeq(t, CHOOSE i \in keep : \A j \in keep : i <= j,
                       CHOOSE i \in keep : \A j \in keep : j <= i)

\* url.split("?")[0]
before_query(url) ==
    LET marks == { i \in 1..Len(url) : url[i] = "?" }
    IN  IF marks = {} THEN url
        ELSE SubSeq(url, 1, (CHOOSE i \in marks : \A j \in marks : i <= j) - 1)

\* re.IGNORECASE, on the words that occur
upper(w) == CASE w = "select" -> "SELECT" [] w = "from" -> "FROM" [] OTHER -> w

IsWord(t) == t \notin {"*", "=", ",", "(", ")"}

\* parse_sql_query: the words after FROM, JOIN, UPDATE, INTO; the words after SELECT,
\* WHERE, SET, ON and the words before an equals sign
parse_sql_query(query) ==
    [tables |-> { query[i + 1] : i \in { j \in 1..(Len(query) - 1) :
                      upper(query[j]) \in {"FROM", "JOIN", "UPDATE", "INTO"}
                      /\ IsWord(query[j + 1]) } },
     columns |-> { query[i + 1] : i \in { j \in 1..(Len(query) - 1) :
                      upper(query[j]) \in {"SELECT", "WHERE", "SET", "ON"}
                      /\ IsWord(query[j + 1]) } }
                 \cup { query[i] : i \in { j \in 1..(Len(query) - 1) :
                      query[j + 1] = "=" /\ IsWord(query[j]) } }]

HasWord(query, words) == \E i \in 1..Len(query) : upper(query[i]) \in words

\* the dicts api_endpoints, db_tables, db_columns of resolve_cross_language_heuristics:
\* name -> global_id over final_nodes.items(), a later node taking the name over
EndpointPath(node) == strip(GetOr(node.properties, "path", Empty))
\* a name is one word: the empty name is the empty sequence
EntityName(node) == IF "name" \in DOMAIN node.properties THEN << node.properties.name >> ELSE Empty

NameOf(node) == IF node.node_type = "ApiEndpoint" THEN EndpointPath(node) ELSE EntityName(node)

RECURSIVE NamedNodes(_, _, _, _)
NamedNodes(final, i, node_type, d) ==
    IF i > Len(final) THEN d
    ELSE IF final[i].v.node_type = node_type /\ NameOf(final[i].v) # Empty
         THEN NamedNodes(final, i + 1, node_type, DictSet(d, NameOf(final[i].v), final[i].k))
         ELSE NamedNodes(final, i + 1, node_type, d)

HeuristicRel(source, target_gid, relationship_type, heuristic_match) ==
    [source_node_global_id |-> source.global_id,
     target_node_global_id |-> target_gid,
     relationship_type |-> relationship_type,
     properties |-> [heuristic_match |-> heuristic_match],
     location |-> source.location]

ApiCallRels(caller, api_endpoints) ==
    LET url == IF GetOr(caller.properties, "url", Empty) # Empty THEN caller.properties.url
               ELSE GetOr(caller.properties, "path", Empty)
        match_path == strip(before_query(url))
    IN  IF url # Empty /\ DictHas(api_endpoints, match_path)
        THEN << HeuristicRel(caller, DictAt(api_endpoints, match_path), "CALLS_API", "url_path") >>
        ELSE << >>

QueryRels(query_node, db_tables, db_columns) ==
    LET query_string == GetOr(query_node.properties, "query", Empty)
        parsed_sql == parse_sql_query(query_string)
        rel_type == IF HasWord(query_string, {"UPDATE", "INSERT", "DELETE"}) THEN "MODIFIES_TABLE"
                    ELSE IF HasWord(query_string, {"SELECT"}) THEN "READS_TABLE"
                    ELSE "QUERIES_TABLE"
        tables == SetToSeq({ t \in parsed_sql.tables : DictHas(db_tables, << t >>) })
        columns == SetToSeq({ c \in parsed_sql.columns : DictHas(db_columns, << c >>) })
    IN  IF query_string = Empty THEN << >>
        ELSE [ i \in 1..Len(tables) |->
                 HeuristicRel(query_node, DictAt(db_tables, << tables[i] >>), rel_type,
                              "table_name_in_query") ]
             \o [ i \in 1..Len(columns) |->
                 HeuristicRel(query_node, DictAt(db_columns, << columns[i] >>), "USES_COLUMN",
                              "column_name_in_query") ]

RECURSIVE Concat(_, _)
Concat(lists, i) == IF i > Len(lists) THEN << >> ELSE lists[i] \o Concat(lists, i + 1)

resolve_cross_language_heuristics(final) ==
    LET api_endpoints == NamedNodes(final, 1, "ApiEndpoint", << >>)
        db_tables == NamedNodes(final, 1, "Table", << >>)
        db_columns == NamedNodes(final, 1, "Column", << >>)
        OfCaller(node) == IF node.node_type = "ApiCall" THEN ApiCallRels(node, api_endpoints)
                          ELSE << >>
        OfQuery(node) == IF node.node_type = "DatabaseQuery"
                         THEN QueryRels(node, db_tables, db_columns) ELSE << >>
    IN  Concat([ i \in 1..Len(final) |-> OfCaller(final[i].v) ], 1)
        \o Concat([ i \in 1..Len(final) |-> OfQuery(final[i].v) ], 1)

\* Pass 3: the relationship built for an analyzer relationship, or nothing
FinalRel(item, by_key, final, heuristic_relationships) ==
    LET source_local_key == item.k
        rel == item.v
        target_local_key == << source_local_key[1], source_local_key[2], rel.target_node_local_id >>
        gids == resolved_global_ids(by_key)
        source_global_id == DictAt(gids, source_local_key)
        target_global_id == DictAt(gids, target_local_key)
        target_node == DictAt(final, target_global_id)
        mapped == GetOr(REL_TYPE_MAP, rel.relationship_type, "RELATED_TO")
        final_rel_type ==
            IF mapped = "CALLS" /\ target_node.node_type = "ApiEndpoint" THEN "CALLS_API"
            ELSE IF mapped = "QUERIES" /\ target_node.node_type = "Table" THEN "QUERIES_TABLE"
            ELSE IF mapped = "ACCESSES" /\ target_node.node_type = "Column" THEN "USES_COLUMN"
            ELSE mapped
        is_duplicate == \E h \in 1..Len(heuristic_relationships) :
            /\ heuristic_relationships[h].source_node_global_id = source_global_id
            /\ heuristic_relationships[h].target_node_global_id = target_global_id
            /\ heuristic_relationships[h].relationship_type = final_rel_type
    IN  IF ~ DictHas(by_key, source_local_key) \/ ~ DictHas(by_key, target_local_key) THEN << >>
        ELSE IF is_duplicate THEN << >>
        ELSE << [source_node_global_id |-> source_global_id,
                 target_node_global_id |-> target_global_id,
                 relationship_type |-> final_rel_type,
                 properties |-> [analyzer |-> source_local_key[1],
                                 original_relationship_type |-> rel.relationship_type]
                                @@ rel.properties,
                 location |-> rel.location] >>

RECURSIVE FinalRels(_, _, _, _, _)
FinalRels(items, i, by_key, final, heuristic_relationships) ==
    IF i > Len(items) THEN << >>
    ELSE FinalRel(items[i], by_key, final, heuristic_relationships)
         \o FinalRels(items, i + 1, by_key, final, heuristic_relationships)

\* orchestrate_results: the nodes, the relationships and the definition registry
orchestrate_results(analysis_results, first) ==
    LET by_key == nodes_by_local_key(analysis_results)
        final == final_nodes(by_key, 1, first, << >>)
        heuristic_relationships == resolve_cross_language_heuristics(final)
    IN  [nodes |-> DictValues(final),
         relationships |-> heuristic_relationships
             \o FinalRels(relationships_by_source(analysis_results), 1, by_key, final,
                          heuristic_relationships),
         definition_registry |-> definition_registry(by_key, 1, << >>)]

\* the inputs: the nodes and relationships an analyzer reports for one file
AnalyzerName == << "python", "_", "analyzer" >>

AnalyzerNode(local_id, node_type, global_id_candidate, properties, location) ==
    [local_id |-> local_id, node_type |-> node_type,
     global_id_candidate |-> global_id_candidate, properties |-> properties,
     location |-> location, code_snippet |-> << "snippet", location >>]

ResolverNodes ==
    { AnalyzerNode("1", "FunctionDefinition", << "src", "\\", "a.py", ":", "f" >>,
                   [name |-> "f"], "L1"),
      AnalyzerNode("1", "ClassDefinition", << "src", "/", "a.py", ":", "C" >>,
                   [name |-> "C"], "L2"),
      AnalyzerNode("2", "FunctionDefinition", << "src", "/", "a.py", ":", "f" >>,
                   [identifier |-> "f"], "L3"),
      AnalyzerNode("3", "ApiEndpointHint", << "GET", "/", "users" >>,
                   [path |-> << "/", "users", "/" >>], "L4"),
      AnalyzerNode("4", "ApiCallHint", Empty,
                   [url |-> << "/", "users", "?", "page" >>], "L5"),
      AnalyzerNode("5", "DatabaseQueryHint", Empty,
                   [query |-> << "select", "id", "from", "users" >>], "L6"),
      AnalyzerNode("6", "DatabaseTableHint", << "table", "users" >>,
                   [name |-> "users"], "L7"),
      AnalyzerNode("7", "Widget", Empty, [language |-> "PYTHON"], "L8") }

AnalyzerRel(source, target, relationship_type) ==
    [source_node_local_id |-> source, target_node_local_id |-> target,
     relationship_type |-> relationship_type, properties |-> [name |-> "r"],
     location |-> "R1"]

ResolverRels ==
    { AnalyzerRel("1", "2", "CALLS"), AnalyzerRel("1", "3", "CALLS"),
      AnalyzerRel("1", "2", "DEFINES"), AnalyzerRel("1", "2", "DEPENDS_ON"),
      AnalyzerRel("4", "3", "FETCHES_HINT"), AnalyzerRel("5", "6", "QUERIES_HINT"),
      AnalyzerRel("5", "6", "READS_HINT") }

\* the lists of at most n different members of S
ListsOf(S, n) ==
    UNION { { s \in [1..m -> S] : \A i, j \in 1..m : s[i] = s[j] => i = j } : m \in 0..n }

AnalysisResult(status, node_list, relationship_list) ==
    [analyzer_name |-> AnalyzerName, file_path |-> "src/a.py", status |-> status,
     nodes |-> node_list, relationships |-> relationship_list]

\* one result, alone or after a result of an analysis that failed
AnalysisResultLists ==
    { << AnalysisResult("SUCCESS", N, R) >> :
        N \in ListsOf(ResolverNodes, MaxNodes), R \in ListsOf(ResolverRels, MaxRelationships) }
    \cup { << AnalysisResult("FAILED", N, R), AnalysisResult("SUCCESS", N, R) >> :
        N \in ListsOf(ResolverNodes, MaxNodes), R \in ListsOf(ResolverRels, MaxRelationships) }

LabelOrders == {"mapped", "language", "original"}

Orchestrate(analysis_results, first) ==
    /\ ~ rdone
    /\ rdone' = TRUE
    /\ rin' = analysis_results
    /\ rfirst' = first
    /\ LET out == orchestrate_results(analysis_results, first)
       IN  /\ rnodes' = out.nodes
           /\ rrels' = out.relationships
           /\ rregistry' = out.definition_registry
    /\ UNCHANGED << ingestVars, watcherVars, publisherVars, startupVars >>
    /\ UNCHANGED << squeue, scans, sbody, scanAnswer, abody, aenv, aanswer, arequeue, apublished >>

-----------------------------------------------------------------------------
(* The main functions of the workers: what the process exits with *)

\* cause: what ended the process, "dependency" (a required dependency could not be
\* obtained at startup), "runtime" (an unexpected error later) or "shutdown"
Starting(pc) == [pc |-> pc, attempt |-> 1, code |-> 0, cause |-> "none"]
Exited(main, code, cause) == [main EXCEPT !.pc = "exited", !.code = code, !.cause = cause]

Others(changed) ==
    /\ UNCHANGED << ingestVars, watcherVars, publisherVars, resolverVars >>
    /\ UNCHANGED << squeue, scans, sbody, scanAnswer, abody, aenv, aanswer, arequeue, apublished >>
    /\ \A v \in {"wmain", "amain", "imain"} \ {changed} :
           CASE v = "wmain" -> UNCHANGED wmain
             [] v = "amain" -> UNCHANGED amain
             [] v = "imain" -> UNCHANGED imain

\* file_watcher_service main: RabbitMQPublisher(...) runs _connect, whose sys.exit(2)
\* after max_retries failed rounds is not caught by `except Exception`
WatcherConnect(raises) ==
    /\ wmain.pc = "connect"
    /\ wmain' = IF ~ raises THEN [wmain EXCEPT !.pc = "schedule"]
                ELSE IF wmain.attempt < max_retries
                     THEN [wmain EXCEPT !.attempt = wmain.attempt + 1]
                ELSE Exited(wmain, 2, "dependency")
    /\ Others("wmain")

\* observer.schedule(event_handler, CODEBASE_ROOT, recursive=True): return 2 when it raises
WatcherSchedule(raises) ==
    /\ wmain.pc = "schedule"
    /\ wmain' = IF raises THEN Exited(wmain, 2, "dependency") ELSE [wmain EXCEPT !.pc = "start"]
    /\ Others("wmain")

\* observer.start(): return 2 when it raises
WatcherStart(raises) ==
    /\ wmain.pc = "start"
    /\ wmain' = IF raises THEN Exited(wmain, 2, "dependency") ELSE [wmain EXCEPT !.pc = "loop"]
    /\ Others("wmain")

\* while True: time.sleep(1), left by KeyboardInterrupt or by an exception that is
\* logged; both reach the finally and `return 0`
WatcherLoop(interrupt) ==
    /\ wmain.pc = "loop"
    /\ wmain' = Exited(wmain, 0, IF interrupt THEN "shutdown" ELSE "runtime")
    /\ Others("wmain")

\* python_analyzer main: IdServiceClient(...) in its own try, `return 1` when it raises
AnalyzerIdService(raises) ==
    /\ amain.pc = "id_service"
    /\ amain' = IF raises THEN Exited(amain, 1, "dependency") ELSE [amain EXCEPT !.pc = "broker"]
    /\ Others("amain")

\* pika.BlockingConnection(...), queue_declare, basic_consume: `except Exception: return 1`
AnalyzerBroker(raises) ==
    /\ amain.pc = "broker"
    /\ amain' = IF raises THEN Exited(amain, 1, "dependency") ELSE [amain EXCEPT !.pc = "consume"]
    /\ Others("amain")

\* channel.start_consuming(), left by KeyboardInterrupt (return 0) or an exception (return 1)
AnalyzerConsume(interrupt) ==
    /\ amain.pc = "consume"
    /\ amain' = IF interrupt THEN Exited(amain, 0, "shutdown") ELSE Exited(amain, 1, "runtime")
    /\ Others("amain")

\* ingestion_worker main: Neo4jIngestionWorker(...), `except Exception: return 1`
IngestionGraphStore(raises) ==
    /\ imain.pc = "graph_store"
    /\ imain' = IF raises THEN Exited(imain, 1, "dependency") ELSE [imain EXCEPT !.pc = "broker"]
    /\ Others("imain")

IngestionBroker(raises) ==
    /\ imain.pc = "broker"
    /\ imain' = IF raises THEN Exited(imain, 1, "dependency") ELSE [imain EXCEPT !.pc = "consume"]
    /\ Others("imain")

IngestionConsume(interrupt) ==
    /\ imain.pc = "consume"
    /\ imain' = IF interrupt THEN Exited(imain, 0, "shutdown") ELSE Exited(imain, 1, "runtime")
    /\ Others("imain")

-----------------------------------------------------------------------------

Init ==
    /\ nodes = {}
    /\ edges = {}
    /\ pend = EmptyBag
    /\ singleExhausts \in BOOLEAN
    /\ cpc = "idle"
    /\ msg = Malformed
    /\ cbatch = EmptyBag
    /\ outcome = "none"
    /\ nackRequeue = FALSE
    /\ requeued = {}
    /\ deliveries = 0
    /\ failedOps = {}
    /\ sdpc = [ s \in Slots |-> "off" ]
    /\ sbatch = [ s \in Slots |-> EmptyBag ]
    /\ now = 0
    /\ skipped = FALSE
    /\ onceCounts = NoCounts
    /\ startPend = {}
    /\ doomed = {}
    /\ dueAt = [ r \in RelRows |-> NoTime ]
    /\ file_timestamps = [ p \in PathTexts |-> NoTime ]
    /\ wnow = 0
    /\ lastEvent = [ p \in PathTexts |-> NoTime ]
    /\ wjobs = << >>
    /\ burst = [ p \in PathTexts |-> 0 ]
    /\ prevEvent = [ p \in PathTexts |-> NoTime ]
    /\ storm = [ p \in PathTexts |-> 0 ]
    /\ lastType = [ p \in PathTexts |-> "NONE" ]
    /\ lastDeleted = "NONE"
    /\ squeue = << >>
    /\ scans = 0
    /\ sbody = Malformed
    /\ scanAnswer = "none"
    /\ abody = Malformed
    /\ aenv = [content |-> "missing", fault |-> "none"]
    /\ aanswer = "none"
    /\ arequeue = FALSE
    /\ apublished = << >>
    /\ ppc = "idle"
    /\ pmessage = Malformed
    /\ attempt = 1
    /\ cattempt = 1
    /\ psleeps = << >>
    /\ pqueue = << >>
    /\ pdropped = << >>
    /\ rin = << >>
    /\ rfirst = "mapped"
    /\ rnodes = << >>
    /\ rrels = << >>
    /\ rregistry = << >>
    /\ rdone = FALSE
    /\ wmain = Starting("connect")
    /\ amain = Starting("id_service")
    /\ imain = Starting("graph_store")

Next ==
    \/ \E body \in Bodies \cup requeued : Deliver(body)
    \/ Return
    \/ Nack
    \/ IngestNodes
    \/ IngestRelationships
    \/ DeleteNodes
    \/ DeleteRelationships
    \/ ConsumerFetch
    \/ ConsumerResolve
    \/ Ack
    \/ SchedulerFire
    \/ \E s \in Slots : SchedulerFetch(s)
    \/ \E s \in Slots : SchedulerResolve(s)

Spec == Init /\ [][Next]_vars

\* a thread that is inside resolve_pending_relationships keeps executing it, and the
\* consumer's thread goes on to the basic_ack that follows the call: the consumer's
\* thread and the pool threads of the scheduler are not suspended
DrainFairness ==
    /\ WF_vars(ConsumerFetch)
    /\ WF_vars(ConsumerResolve)
    /\ WF_vars(Ack)
    /\ \A s \in Slots : WF_vars(SchedulerFetch(s)) /\ WF_vars(SchedulerResolve(s))

SpecDrain == Init /\ [][Next]_vars /\ DrainFairness

NextWatcher ==
    \/ Advance
    \/ \E path \in Paths, is_directory \in BOOLEAN, event_type \in EventTypes,
          sent \in BOOLEAN \X BOOLEAN :
          Dispatch(path, is_directory, event_type, sent)

SpecWatcher == Init /\ [][NextWatcher]_vars

\* the orchestrator alone; basic_publish may raise for any of the files
NextScan ==
    \E body \in ScanBodies, failing \in SUBSET PathTexts : OnMessage(body, failing)

SpecScan == Init /\ [][NextScan]_vars

\* a sequence of ingest_nodes calls
NextUpsert ==
    \E N \in { B \in SUBSET LabelledStubs : Cardinality(B) <= MaxBatch } :
        \E failing \in SUBSET LabelGroups(N) : UpsertNodes(N, failing)

SpecUpsert == Init /\ [][NextUpsert]_vars

\* the publisher of the watcher, given the jobs of one file
NextPublisher ==
    \/ \E event_type \in EventTypes : CallPublish(Job(PathOf("src/a.py"), event_type))
    \/ \E raises \in BOOLEAN : BasicPublish(raises)
    \/ \E raises \in BOOLEAN : Connect(raises)
    \/ Backoff

SpecPublisher == Init /\ [][NextPublisher]_vars

\* the three workers starting, running and stopping
NextStartup ==
    \/ \E raises \in BOOLEAN : WatcherConnect(raises)
    \/ \E raises \in BOOLEAN : WatcherSchedule(raises)
    \/ \E raises \in BOOLEAN : WatcherStart(raises)
    \/ \E interrupt \in BOOLEAN : WatcherLoop(interrupt)
    \/ \E raises \in BOOLEAN : AnalyzerIdService(raises)
    \/ \E raises \in BOOLEAN : AnalyzerBroker(raises)
    \/ \E interrupt \in BOOLEAN : AnalyzerConsume(interrupt)
    \/ \E raises \in BOOLEAN : IngestionGraphStore(raises)
    \/ \E raises \in BOOLEAN : IngestionBroker(raises)
    \/ \E interrupt \in BOOLEAN : IngestionConsume(interrupt)

SpecStartup == Init /\ [][NextStartup]_vars

\* the resolver, called once
NextResolver ==
    \E analysis_results \in AnalysisResultLists, first \in LabelOrders :
        Orchestrate(analysis_results, first)

SpecResolver == Init /\ [][NextResolver]_vars

\* the analyzer alone
NextAnalyzer ==
    \E body \in AnalyzerBodies, content \in Contents, fault \in Faults :
        ProcessJob(body, content, fault)

SpecAnalyzer == Init /\ [][NextAnalyzer]_vars

-----------------------------------------------------------------------------
(* The properties *)

\* the row is a concrete edge of its type from a node with gid = source_gid to a node
\* with canonical_id = target_canonical_id
EdgeOf(H, r) ==
    \E s \in Sources(H, r), t \in Targets(H, r) :
        \E e \in H.edges : e.src = Key(s) /\ e.dst = Key(t) /\ e.type = r.type

Represented(H, r) == EdgeOf(H, r) \/ H.pend[r] > 0

\* process_message has returned after basic_ack and no query of the message raised
Finished == cpc = "done" /\ outcome = "ack" /\ failedOps = {} /\ msg # Malformed

UpsertedIds == { n.canonical_id : n \in msg.nodes_upserted }

\* process_message has run the upserts and deletions of msg and no query raised
Applied ==
    cpc \in {"fetch", "resolve", "ack", "done"} /\ failedOps = {} /\ msg # Malformed

\* C1: when the worker has applied the same AnalyzerResult a second time in succession
\* (no query raised, no scheduled run in between), the numbers of nodes, concrete
\* edges and PendingRelationship records are those left by processing it once.
C1_IngestTwice ==
    (Applied /\ onceCounts # NoCounts /\ now = 0) => Counts = onceCounts

\* the worker's own drain holds a full batch that does not contain the row
Starved(r) ==
    cpc = "resolve" /\ BagSize(cbatch) = RELATIONSHIP_BATCH_SIZE /\ cbatch[r] = 0

\* C2: a PendingRelationship whose target node was ingested at time t (its source node
\* being present) is resolved before the second trigger after t has fired, that is
\* within RELATIONSHIP_RESOLUTION_INTERVAL, also while the drain is busy with a full
\* batch of other pending records.
C2_ResolvedWithinInterval ==
    \A r \in RelRows :
        (dueAt[r] # NoTime /\ Resolvable(G, r) /\ failedOps = {} /\ Starved(r))
            => now < dueAt[r] + 2 * RELATIONSHIP_RESOLUTION_INTERVAL

\* C3: after ingest_relationships has run on a batch without a query raising, every
\* input row is a concrete edge between the matching nodes or a PendingRelationship
\* with the same source_gid, target_canonical_id and type.
C3_NoRowLost ==
    [][ (IngestRelationships /\ "rels" \notin failedOps')
            => \A r \in msg.relationships_upserted : Represented(G', r) ]_vars

\* a batch of which one row became an edge and another a PendingRelationship
C3_Witness ==
    /\ msg # Malformed
    /\ cpc = StepsFrom(3, msg)
    /\ "rels" \notin failedOps
    /\ \E r1, r2 \in msg.relationships_upserted :
         EdgeOf(G, r1) /\ ~ EdgeOf(G, r2) /\ pend[r2] > 0

C5_CascadeDelete ==
    "delnodes" \notin failedOps =>
        \A n \in doomed :
            /\ n \notin nodes
            /\ \A r \in RelRows :
                 pend[r] > 0 => r.source_gid # n.gid /\ r.target_canonical_id # n.canonical_id

\* C6: when an AnalyzerResult that lists nodes of a file (and deletes nothing) is
\* finished, the nodes the graph holds for that file are exactly the nodes the result
\* lists: a node of the file an earlier result introduced is gone.
C6_LastResultReplaces ==
    (Finished /\ msg.nodes_upserted # {} /\ msg.nodes_deleted = {}
              /\ msg.relationships_deleted = {}) =>
        { Key(n) : n \in { m \in nodes :
                             m.file_path \in { s.file_path : s \in msg.nodes_upserted } } }
          = { Key(s) : s \in msg.nodes_upserted }

\* C7: a body that cannot be parsed is nacked with requeue = false, and is not held
\* for redelivery.
C7_MalformedNotRequeued ==
    (msg = Malformed /\ outcome = "nack") => (nackRequeue = FALSE /\ Malformed \notin requeued)

\* C8: a message is acked only when no graph operation run for it raised; when one
\* raised, the message is nacked with requeue.
C8_AckOnlyOnSuccess ==
    /\ outcome = "ack" => failedOps = {}
    /\ (cpc = "done" /\ failedOps # {}) => (outcome = "nack" /\ nackRequeue)

\* C9: no two executions of resolve_pending_relationships started by the scheduler
\* are in progress at the same time.
C9_ScheduledRunsDoNotOverlap == Cardinality(Running) <= max_instances

\* a trigger fired while a scheduled run was in progress, and the run was skipped
C9_Witness == skipped /\ Cardinality(Running) = max_instances

\* C9 as stated: no two executions of resolve_pending_relationships, whoever started
\* them, are in progress at the same time.
C9_NoTwoExecutions ==
    Cardinality(Running) + (IF cpc \in {"fetch", "resolve"} THEN 1 ELSE 0) <= 1

\* C10: in a run of modifications of one file, each following the previous one by at
\* most DEBOUNCE_MS, at most one MODIFIED job is published for the file.
C10_AtMostOneModifiedJob == \A p \in PathTexts : burst[p] <= 1

\* the file's last event was a modification and the file has been left untouched for
\* more than DEBOUNCE_MS since
Settled(p) == lastEvent[p] # NoTime /\ wnow - lastEvent[p] > DEBOUNCE_MS

\* C11: once a Python file outside the ignored directories has been modified one or
\* more times, each modification following the previous one by less than DEBOUNCE_MS,
\* and has then been left untouched for more than DEBOUNCE_MS, exactly one MODIFIED
\* job has been published for that save storm.
C11_OneJobAfterStorm ==
    \A path \in Paths :
        (Watched(path, FALSE) /\ Settled(path.text))
            => storm[path.text] = 1

\* the job the step has published
Published == wjobs'[Len(wjobs')]

\* C12: when a CREATED or MODIFIED job is published for a path, no earlier event for
\* that path occurred within the DEBOUNCE_MS before it (DEBOUNCE_MS before included,
\* as in the burst of C10).
C12_EmittedOnlyAfterQuiet ==
    [][ (Len(wjobs') > Len(wjobs) /\ Published.event_type \in {"CREATED", "MODIFIED"})
            => \/ prevEvent[Published.file_path] = NoTime
               \/ wnow - prevEvent[Published.file_path] > DEBOUNCE_MS ]_vars

\* what every step that handles an event of one of the types for the path leaves in
\* the history
Recorded(path, types) ==
    wnow' = wnow /\ prevEvent'[path.text] = wnow /\ lastType'[path.text] \in types

\* the handler is given an event of one of the types for a file it watches
Handles(path, types) ==
    /\ Watched(path, FALSE)
    /\ \E event_type \in types, sent \in BOOLEAN \X BOOLEAN :
          Dispatch(path, FALSE, event_type, sent)

\* C13: a DELETED event for a watched file is published whatever the debounce table
\* holds (a DELETED job for the path is the last job on the queue unless every publish
\* attempt failed) and removes the path's entry; the next CREATED or MODIFIED event
\* for the path is treated as the first event for it: recorded and not published.
C13_DeletedBypassesDebounce ==
    [][ \A path \in Paths :
          /\ (Recorded(path, {"DELETED"}) /\ Handles(path, {"DELETED"})) =>
                /\ file_timestamps'[path.text] = NoTime
                /\ \/ wjobs' = wjobs
                   \/ /\ Len(wjobs') > Len(wjobs)
                      /\ Published = Job(path, "DELETED")
                /\ Dispatch(path, FALSE, "DELETED", << TRUE, TRUE >>) => wjobs' # wjobs
          /\ (/\ lastType[path.text] = "DELETED"
              /\ Recorded(path, {"CREATED", "MODIFIED"})
              /\ Handles(path, {"CREATED", "MODIFIED"})) =>
                /\ wjobs' = wjobs
                /\ file_timestamps'[path.text] = wnow ]_vars

\* a file was deleted less than DEBOUNCE_MS after the watcher started, when no
\* CREATED or MODIFIED job can have passed the debounce yet, and the DELETED job was
\* published; the modification that followed was recorded without a job
C13_Witness ==
    \E path \in Paths :
        /\ wjobs # << >>
        /\ wjobs[Len(wjobs)] = Job(path, "DELETED")
        /\ lastType[path.text] = "MODIFIED"
        /\ file_timestamps[path.text] = wnow
        /\ wnow < DEBOUNCE_MS

\* C14: a DELETED event for a file whose path matches no ignore pattern is forwarded
\* as a DELETED job whatever the file's extension (every publish succeeding).
C14_DeletedForwardedAnyExtension ==
    \A path \in Paths :
        (lastDeleted = path.text /\ ~ should_ignore_path(path))
            => \E i \in 1..Len(wjobs) : wjobs[i] = Job(path, "DELETED")

\* C15: no analysis job names a file whose path matches an ignore pattern, neither
\* among the jobs the watcher published nor among the messages a scan published.
C15_IgnoredNeverPublished ==
    \A path \in Paths :
        should_ignore_path(path) =>
            /\ \A i \in 1..Len(wjobs) : wjobs[i].file_path # path.text
            /\ \A i \in 1..Len(squeue) : squeue[i].body.file_path # path.text

\* C16: after any sequence of ingest_nodes calls, whatever label sets the stubs
\* carry, no two nodes of the graph have the same gid.
C16_GidUnique == \A n1, n2 \in nodes : n1.gid = n2.gid => n1 = n2

\* C17: at steady state (the message finished, no scheduled run in progress) every
\* concrete edge carries the properties source_gid and target_canonical_id of its
\* end nodes, whether ingest_relationships created it or the resolution of a
\* PendingRelationship did.
C17_EdgesCarryEndpointIds ==
    (Finished /\ Running = {}) => \A e \in edges : e.stamped

\* the analyzer has handled a job for a .py file, with every service up
HandledPy ==
    /\ aanswer # "none"
    /\ "file_path" \in DOMAIN abody
    /\ PathOf(abody.file_path).suffix = ".py"
    /\ aenv.fault = "none"

\* C18: for a job {file_path, event_type} without an id, as the watcher publishes it,
\* with event_type CREATED or MODIFIED and naming a parseable .py file, the analyzer
\* publishes exactly one AnalyzerResult and acks the job.
C18_WatcherJobAnalyzed ==
    (/\ HandledPy
     /\ DOMAIN abody = {"file_path", "event_type"}
     /\ abody.event_type \in {"CREATED", "MODIFIED"}
     /\ aenv.content \in {"plain", "calls"})
        => Len(apublished) = 1 /\ aanswer = "ack"

\* C19: for a job with event_type = DELETED (carrying an id) the analyzer publishes an
\* AnalyzerResult whose nodes_upserted is empty and whose nodes_deleted is not.
C19_DeletedJobPublishesDeletion ==
    (/\ HandledPy
     /\ DOMAIN abody = {"file_path", "event_type", "id"}
     /\ abody.event_type = "DELETED")
        => /\ Len(apublished) = 1
           /\ apublished[1].nodes_upserted = {}
           /\ apublished[1].nodes_deleted # {}

\* C20: when the file of a CREATED or MODIFIED job (carrying an id) does not parse, the
\* analyzer publishes an AnalyzerResult with an error and empty node and edge lists,
\* and acks the job.
C20_SyntaxErrorPublishesError ==
    (/\ HandledPy
     /\ "id" \in DOMAIN abody
     /\ Get(abody, "event_type") # "DELETED"
     /\ aenv.content = "syntax_error")
        => /\ Len(apublished) = 1
           /\ apublished[1].error # None
           /\ apublished[1].nodes_upserted = {}
           /\ apublished[1].relationships_upserted = {}
           /\ aanswer = "ack"

\* the analyzer has handled a job that carries an id and asks for the analysis of a
\* parseable .py file, so that GenerateId is called and a result is to be published
Analysed ==
    /\ aanswer # "none"
    /\ "file_path" \in DOMAIN abody
    /\ "id" \in DOMAIN abody
    /\ PathOf(abody.file_path).suffix = ".py"
    /\ Get(abody, "event_type") # "DELETED"
    /\ aenv.content \in {"plain", "calls"}

\* C21: when GenerateId fails or publishing the result fails while such a job is
\* handled, the job is nacked with requeue and not acked.
C21_ServiceFailureRequeues ==
    (Analysed /\ aenv.fault \in {"id_service", "broker"})
        => aanswer = "nack" /\ arequeue

\* C22: in every relationship stub of a published AnalyzerResult, source_gid is the
\* value a node stub of the result carries in its gid field.
C22_SourceGidIsNodeGid ==
    \A i \in 1..Len(apublished) :
        \A r \in apublished[i].relationships_upserted :
            \E n \in apublished[i].nodes_upserted : n.gid = r.source_gid

\* C23: every message a scan has published names a file whose extension has a
\* queue, went to that queue, and carries file_path, an id no other message carries,
\* and event_type = CREATED.
C23_ScanJobShape ==
    \A i \in 1..Len(squeue) :
        /\ EXTENSION_TO_QUEUE(PathOf(squeue[i].body.file_path).suffix) = squeue[i].routing_key
        /\ \A j \in 1..Len(squeue) : squeue[j].body.id = squeue[i].body.id => j = i
        /\ Get(squeue[i].body, "event_type") = "CREATED"

\* C24: when publishing a watcher message keeps failing, publish_with_retry makes at
\* most max_retries attempts, gives the message up and returns: the thread that
\* handles the events is never ended by it, so later events are still processed.
C24_PublishGivesUpAndGoesOn ==
    /\ attempt <= max_retries
    /\ ppc # "exited"

\* C25: the sleeps between the successive attempts to publish one message start at
\* base_backoff and grow geometrically: each is the one before it times one constant
\* factor greater than 1.
C25_BackoffIsExponential ==
    /\ Len(psleeps) >= 1 => psleeps[1] = base_backoff
    /\ \A i \in 1..(Len(psleeps) - 1) : psleeps[i + 1] > psleeps[i]
    /\ \A i \in 1..(Len(psleeps) - 2) :
           psleeps[i + 1] * psleeps[i + 1] = psleeps[i] * psleeps[i + 2]

\* C26: every job the watcher publishes goes to the queue its file's extension
\* selects; a job for a .py file goes to the queue the Python analyzer consumes.
C26_JobGoesToAnalyzerQueue ==
    \A i \in 1..Len(pqueue) :
        /\ pqueue[i].routing_key = EXTENSION_TO_QUEUE(PathOf(pqueue[i].body.file_path).suffix)
        /\ PathOf(pqueue[i].body.file_path).suffix = ".py"
               => pqueue[i].routing_key = RABBITMQ_JOBS_QUEUE

\* C27: delete_relationships, when none of its queries raises, removes every edge and
\* every PendingRelationship that matches one of the given specs (source_gid and
\* target_canonical_id, and the type when the spec has one), and nothing else.
C27_DeleteRelationshipsFrame ==
    [][ (cpc = "delrels" /\ cpc' = "fetch" /\ "delrels" \notin failedOps')
        => LET S == msg.relationships_deleted
               HitEdge(e) == \E s \in S :
                   SpecMatches(s, e.src[1], NodeAt(G, e.dst).canonical_id, e.type)
               HitPending(r) == \E s \in S :
                   SpecMatches(s, r.source_gid, r.target_canonical_id, r.type)
           IN  /\ edges' = { e \in edges : ~ HitEdge(e) }
               /\ pend' = [ r \in RelRows |-> IF HitPending(r) THEN 0 ELSE pend[r] ] ]_vars

\* C28: a PendingRelationship keeps the properties of its relationship stub: an edge
\* created when a pending record is resolved carries the properties that an edge
\* created directly from the stub carries, so every edge that appears has them.
C28_ResolvedEdgeCarriesProperties ==
    [][ \A e \in edges' \ edges : e.stamped ]_vars

\* the nodes orchestrate_results was given, in input order, with their local keys
SeenNodes == Collected(rin, 1, "nodes")

SeenGid(i) == generate_preliminary_global_id(SeenNodes[i].v, SeenNodes[i].k[1], SeenNodes[i].k[2])

\* no earlier input node has the local key or the global id of input node i
FirstSeen(i) ==
    \A j \in 1..(i - 1) : SeenNodes[j].k # SeenNodes[i].k /\ SeenGid(j) # SeenGid(i)

\* C29: of several input nodes with the same local key or the same global id, the
\* first in input order is kept: the output node for its id is built from it, and
\* when it is a definition the registry maps its id to its key.
C29_FirstSeenKept ==
    rdone => \A i \in 1..Len(SeenNodes) :
        FirstSeen(i) =>
            /\ \E n \in 1..Len(rnodes) :
                   /\ rnodes[n].global_id = SeenGid(i)
                   /\ rnodes[n].location = SeenNodes[i].v.location
                   /\ rnodes[n].code_snippet = SeenNodes[i].v.code_snippet
            /\ is_definition(SeenNodes[i].v, SeenNodes[i].k[1])
                   => DictHas(rregistry, SeenGid(i))
                      /\ DictAt(rregistry, SeenGid(i)) = SeenNodes[i].k

\* the closed relationship vocabulary of the ingestion contract
CanonicalRelationshipTypes ==
    {"CONTAINS", "CALLS", "IMPORTS", "REFERENCES", "INHERITS_FROM", "IMPLEMENTS",
     "HAS_PARAMETER", "RETURNS", "TYPE_ARGUMENT", "CALLS_API", "QUERIES",
     "QUERIES_TABLE", "MODIFIES_TABLE", "READS_TABLE", "USES_COLUMN",
     "USES_ENVIRONMENT_VARIABLE", "USES_TYPE", "RELATED_TO"}

\* C30: every relationship orchestrate_results returns has a type of the canonical
\* vocabulary, and one mapped from an analyzer type that REL_TYPE_MAP does not know
\* has the type RELATED_TO.
C30_TypesInVocabulary ==
    \A i \in 1..Len(rrels) :
        /\ rrels[i].relationship_type \in CanonicalRelationshipTypes
        /\ ("original_relationship_type" \in DOMAIN rrels[i].properties
            /\ rrels[i].properties.original_relationship_type \notin DOMAIN REL_TYPE_MAP)
               => rrels[i].relationship_type = "RELATED_TO"

\* C31: every relationship orchestrate_results returns, mapped from an analyzer
\* relationship or produced by a heuristic, has the properties analyzer and
\* original_relationship_type.
C31_RelationshipsCarryProvenance ==
    \A i \in 1..Len(rrels) :
        {"analyzer", "original_relationship_type"} \subseteq DOMAIN rrels[i].properties

\* C32: the primary type of every node orchestrate_results returns, the first of its
\* labels, is the type NODE_TYPE_MAP gives for the analyzer's node type, and never
\* the language label, whatever the run.
C32_PrimaryLabelIsMappedType ==
    \A i \in 1..Len(rnodes) :
        /\ rnodes[i].node_type
               = GetOr(NODE_TYPE_MAP, rnodes[i].properties.original_node_type, "Unknown")
        /\ rnodes[i].properties.neo4j_labels[1] = rnodes[i].node_type
        /\ rnodes[i].node_type # capitalize(rnodes[i].properties.language)

\* a worker's process has ended with the code the claim gives for the cause
ExitCodeFits(main) ==
    main.pc = "exited" =>
        /\ main.cause = "dependency" => main.code = 2
        /\ main.code = 1 => main.cause = "runtime"
        /\ main.code = 0 => main.cause = "shutdown"

\* C33: a worker that cannot obtain a required dependency at startup exits with code
\* 2; code 1 is produced only for unexpected runtime errors and code 0 only for a
\* normal shutdown.
C33_ExitCodes == ExitCodeFits(wmain) /\ ExitCodeFits(amain) /\ ExitCodeFits(imain)

\* the place of a position of process_message in the order of its steps
StepRank(pc) ==
    CASE pc = "idle" -> 0 [] pc = "nodes" -> 1 [] pc = "rels" -> 2 [] pc = "delnodes" -> 3
      [] pc = "delrels" -> 4 [] pc \in {"fetch", "resolve"} -> 5 [] pc = "ack" -> 6
      [] OTHER -> 7

\* the list of step j of a message is not empty
StepDue(m, j) ==
    CASE j = 1 -> m.nodes_upserted # {} [] j = 2 -> m.relationships_upserted # {}
      [] j = 3 -> m.nodes_deleted # {} [] j = 4 -> m.relationships_deleted # {}

\* C34: for a results message the worker upserts nodes, upserts relationships,
\* deletes nodes, deletes relationships, runs the pending-resolution pass and only
\* then acks, in this order; a step is skipped exactly when its list is empty, and
\* the pending-resolution pass is run for every message.
C34_StepsInFixedOrder ==
    [][ (cpc' # cpc /\ cpc' # "idle" /\ msg' # Malformed)
        => LET a == IF cpc = "done" THEN 0 ELSE StepRank(cpc)
               b == StepRank(cpc')
           IN  /\ a < b \/ (a = 5 /\ b = 5)
               /\ b <= 4 => StepDue(msg', b)
               /\ \A j \in 1..4 : (a < j /\ j < b) => ~ StepDue(msg', j)
               /\ b = 6 => a = 5
               /\ b = 7 => (a = 6 /\ outcome' = "ack") ]_vars

\* a message with nodes and relationships to upsert and nothing to delete has gone
\* through its two steps and the pass, has left an edge, and is about to be acked
C34_Witness ==
    /\ cpc = "ack" /\ msg # Malformed
    /\ msg.nodes_upserted # {} /\ msg.relationships_upserted # {}
    /\ msg.nodes_deleted = {} /\ msg.relationships_deleted = {}
    /\ edges # {}

\* C35: every invocation of resolve_pending_relationships terminates: the consumer's
\* invocation, once in its loop, leaves it, whatever PendingRelationship records there
\* are and whether or not they can be resolved.
C35_DrainTerminates ==
    (cpc \in {"fetch", "resolve"}) ~> (cpc \notin {"fetch", "resolve"})

\* the concrete edges of the row's type between one source and one target
EdgesBetween(E, s, t, type) == { e \in E : e.src = Key(s) /\ e.dst = Key(t) /\ e.type = type }

\* the row is resolved in H: its source and its target are there, exactly one edge of
\* its type joins each source to each target, no PendingRelationship is left for it
ResolvedOnce(H, r) ==
    /\ Sources(H, r) # {} /\ Targets(H, r) # {}
    /\ \A s \in Sources(H, r), t \in Targets(H, r) :
           Cardinality(EdgesBetween(H.edges, s, t, r.type)) = 1
    /\ H.pend[r] = 0

\* a scheduled drain has fetched the record and has not run its resolving query yet
HeldByDrain(r) == \E s \in Slots : sdpc[s] = "resolve" /\ sbatch[s][r] > 0

\* C36: when a scheduled drain and the resolution triggered by message processing
\* (resolve_pending_relationships_for_node inside ingest_nodes, or the consumer's own
\* drain) act on the same PendingRelationship at overlapping times, the one that removes
\* the record leaves exactly one edge of the row's type between source and target and no
\* pending record, and the one that comes after it, with the record in a batch it
\* fetched earlier, changes neither the edges nor the pending records of the row.
C36_OverlappingResolution ==
    [][ \A r \in RelRows :
          ( /\ IngestNodes \/ ConsumerResolve \/ \E s \in Slots : SchedulerResolve(s)
            /\ HeldByDrain(r) )
          => /\ pend'[r] < pend[r] => ResolvedOnce(G', r)
             /\ pend[r] = 0 =>
                   /\ pend'[r] = 0
                   /\ \A s \in Sources(G, r), t \in Targets(G, r) :
                          EdgesBetween(edges', s, t, r.type) = EdgesBetween(edges, s, t, r.type) ]_vars

\* the consumer has resolved a record that a scheduled drain holds in its batch: the
\* drain's resolving query is about to run on a record that is gone
C36_Witness ==
    \E r \in RelRows :
        /\ HeldByDrain(r)
        /\ cpc \in {"rels", "delnodes", "delrels", "fetch", "resolve", "ack"}
        /\ ResolvedOnce(G, r)

\* C37: for every message delivered to process_message of the ingestion worker, one
\* of basic_ack and basic_nack is issued for the delivery on every execution path:
\* a delivery whose four ingestion steps are over, and whose processing has come to
\* the call of resolve_pending_relationships, is answered.
C37_DeliveryAnswered ==
    (cpc = "fetch") ~> (cpc = "done" /\ outcome \in {"ack", "nack"})

\* C38: a filesystem event given to the handler goes through the filter, the debounce
\* and the publisher once: the deletion of a watched .py file, handed over by the
\* framework (on_any_event, then on_deleted), leaves at most one new job on the queue,
\* and that job is the DELETED job for the path.
C38_OneJobPerDeletion ==
    [][ \A path \in Paths :
          (Recorded(path, {"DELETED"}) /\ Handles(path, {"DELETED"}))
              => /\ Len(wjobs') <= Len(wjobs) + 1
                 /\ Len(wjobs') > Len(wjobs) => Published = Job(path, "DELETED") ]_vars

C40_StubsHaveDistinctGids ==
    \A i \in 1..Len(apublished) :
        /\ \A n \in apublished[i].nodes_upserted : n.gid # Empty
        /\ \A n1, n2 \in apublished[i].nodes_upserted :
               n1.canonical_id # n2.canonical_id => n1.gid # n2.gid

====
